---- MODULE Spec2Model ----
(***************************************************************************)
(* did-example: the ERC-1056 registry, the backend that indexes its        *)
(* events (BlockchainService), the historical resolver (DidService) and    *)
(* the credential verifier (CredentialService).                            *)
(*                                                                         *)
(* Conventions.  Addresses are strings; the registry and ethers hand out   *)
(* the checksummed (mixed case) form, the backend stores the lower case    *)
(* form.  A string that the code splits at ':' is the sequence of its      *)
(* colon-free segments.  A decimal string holding the number n is          *)
(* [digits |-> n].  Seconds and milliseconds are integers and NaN is the   *)
(* value of an invalid Date.  Numbers stay below 2^31, so Number(bigint),  *)
(* parseInt and the integer columns are exact.                             *)
(***************************************************************************)
EXTENDS FiniteSets, Integers, Sequences, TLC

\* ------------------------------------------------------------------ bounds
MaxTime == 3
MaxHead == 2
MaxLogs == 2
MaxValidity == 2
MaxCredentials == 1
MaxRows == 4
MaxFaults == 1
MaxChain == 5
\* startListening calls that wait for the connection test at one time
MaxStarts == 2
\* challenges the login server hands out
MaxChallenges == 2

\* --------------------------------------------------------------- constants
GenesisTime == 1
MsPerSecond == 1000
HalfSecond == MsPerSecond \div 2
\* the clock runs for MaxTime seconds past the genesis block
EndTime == GenesisTime + MaxTime
\* the five minutes a login challenge lasts, on the scale of the clock
ChallengeLifetime == 1

VARIABLES
    now,                  \* wall clock of the backend host and the chain, seconds
    blockTs,              \* blockTs[n + 1] is the timestamp of block n
    owners,               \* registry: mapping(address => address) owners
    delegates,            \* registry: delegates[identity][type][delegate]
    changed,              \* registry: mapping(address => uint) changed
    nonce,                \* registry: mapping(address => uint) nonce
    ledger,               \* the logs the registry has emitted, in ledger order
    delivered,            \* number of logs the live listener has handled
    eventRepository,      \* table Event, in id order
    identityRepository,   \* table Identity, keyed by address
    delegateRepository,   \* table Delegate, in id order
    attributeRepository,  \* table Attribute, in id order
    sync,                 \* the syncFromBlock that is running, if any
    inflight,             \* the live handlers that have started and not ended
    logged,               \* number of logger.error lines of the handlers
    credentialRepository, \* table Credential, in insertion order
    isListening,          \* BlockchainService.isListening
    listeners,            \* number of listeners the contract holds per event
    starting,             \* startListening calls waiting for getBlockNumber
    serverState,          \* login example: challenges, sessions, UUIDs drawn
    response              \* the response of the request served last

chainVars == <<now, blockTs>>
registryVars == <<owners, delegates, changed, nonce, ledger>>
workVars == <<sync, inflight, logged>>
hostVars == <<isListening, listeners, starting, serverState>>
indexVars == <<delivered, eventRepository, identityRepository,
               delegateRepository, attributeRepository, sync, inflight, logged>>
vars == <<now, blockTs, owners, delegates, changed, nonce, ledger, delivered,
          eventRepository, identityRepository, delegateRepository,
          attributeRepository, sync, inflight, logged, credentialRepository,
          isListening, listeners, starting, serverState, response>>

\* ------------------------------------------------------------- primitives
ZeroAddress == "0x00"
Addresses == {"0xAA", "0xBB", "0xDD"}
LowerAddresses == {"0xaa", "0xbb", "0xdd"}
\* the accounts of the registry's mappings: the zero address is one of them
Accounts == Addresses \cup {ZeroAddress}
Null == "null"
NaN == -1
NoResponse == [op |-> "none"]

toLowerCase(s) ==
    CASE s = "0xAA" -> "0xaa"
      [] s = "0xBB" -> "0xbb"
      [] s = "0xDD" -> "0xdd"
      [] OTHER -> s

\* bigint.toString() and parseInt / Number of a decimal string
toString(n) == [digits |-> n]
parseInt(s) == s.digits

\* a bytes32 holding a short string; the undecodable value has no text
Bytes32(hex, text) == [hex |-> hex, text |-> text]
SigAuth == Bytes32("0x73696741757468", <<"sigAuth">>)
VeriKey == Bytes32("0x766572694b6579", <<"veriKey">>)
Enc == Bytes32("0x656e63", <<"enc">>)
ServiceName == Bytes32("0x6469642f737663", <<"did/svc/hub">>)
PubKeyName == Bytes32("0x6469642f707562", <<"did/pub/Secp256k1/sigAuth/hex">>)

\* ethers.decodeBytes32String inside try, the raw hex string in the catch
decodeBytes32String(b) == IF b.text = <<>> THEN <<b.hex>> ELSE b.text

\* a bytes value: its hex form and, when it is valid UTF-8, its text
Bytes(hex, text) == [hex |-> hex, text |-> text]
UrlBytes == Bytes("0x68747470", "http")
BadUtf8 == Bytes("0xff", Null)
hexlify(v) == v.hex
\* ethers.toUtf8String inside try, ethers.hexlify in the catch
valueStr(v) == IF v.text = Null THEN hexlify(v) ELSE v.text

\* a signature is the key that made it and the message it was made over, or
\* is not a signature at all; recovery over another message yields an address
\* nobody holds
Signature(signer, message) == [signer |-> signer, message |-> message]
Malformed == [malformed |-> TRUE]
Unheld == "0xEE"

\* -------------------------------------------------------------- the chain
head == Len(blockTs) - 1

\* provider.getBlock(n): null for a block that does not exist
getBlock(n) ==
    IF n \in 0..head
    THEN [found |-> TRUE, number |-> n, timestamp |-> blockTs[n + 1]]
    ELSE [found |-> FALSE]

Tick ==
    /\ now < EndTime
    /\ now' = now + 1
    /\ response' = NoResponse
    /\ UNCHANGED <<blockTs, registryVars, indexVars, credentialRepository, hostVars>>

\* dt seconds pass and a block is mined, its timestamp later than its parent's
MineBlock(dt) ==
    /\ head < MaxHead
    /\ now + dt <= EndTime
    /\ now + dt > blockTs[Len(blockTs)]
    /\ now' = now + dt
    /\ blockTs' = Append(blockTs, now + dt)
    /\ response' = NoResponse
    /\ UNCHANGED <<registryVars, indexVars, credentialRepository, hostVars>>

\* ----------------------------------------------------------- the registry
\* an owner that is read from the mapping alone
identityOwner_Stored(identity) == owners[identity]

\* the owner that was set, else the identity itself
identityOwner(identity) ==
    IF owners[identity] # ZeroAddress THEN owners[identity] ELSE identity

blockTimestamp == blockTs[Len(blockTs)]
blockNumber == head

\* a check that lets every actor through
onlyOwner_Anyone(identity, actor) == TRUE

\* modifier onlyOwner: the require that the function's body runs behind
onlyOwner(identity, actor) == actor = identityOwner(identity)

\* a comparison that also holds in the second the validity ends
validDelegate_UntilIncluded(identity, delegateType, delegate) ==
    /\ <<identity, delegateType.hex, delegate>> \in DOMAIN delegates
    /\ delegates[<<identity, delegateType.hex, delegate>>] >= blockTimestamp

\* an entry that was never written reads as 0
validDelegate(identity, delegateType, delegate) ==
    LET validity == IF <<identity, delegateType.hex, delegate>> \in DOMAIN delegates
                    THEN delegates[<<identity, delegateType.hex, delegate>>]
                    ELSE 0
    IN  validity > blockTimestamp

\* a transaction lands in the head block while that block is being mined; the
\* registry is deployed after genesis
CanTransact ==
    /\ head >= 1
    /\ blockTimestamp = now
    /\ Len(ledger) < MaxLogs

emit(eventName, args) ==
    ledger' = Append(ledger, [transactionHash |-> Len(ledger) + 1,
                              blockNumber |-> blockNumber,
                              eventName |-> eventName,
                              args |-> args])

\* a write that leaves the mapping as it was
setChanged_Never(identity) == changed

\* a write that reaches the entry of every identity
setChanged_Everywhere(identity) == [a \in DOMAIN changed |-> blockNumber]

\* changed[identity] = block.number
setChanged(identity) == [changed EXCEPT ![identity] = blockNumber]

\* the internal functions: the storage writes and the event of one call, behind
\* onlyOwner
changeOwnerInternal(identity, actor, newOwner) ==
    /\ onlyOwner(identity, actor)
    /\ owners' = [owners EXCEPT ![identity] = newOwner]
    /\ emit("DIDOwnerChanged",
            [identity |-> identity, owner |-> newOwner,
             previousChange |-> changed[identity]])
    /\ changed' = setChanged(identity)
    /\ UNCHANGED delegates

addDelegateInternal(identity, actor, delegateType, delegate, validity) ==
    /\ onlyOwner(identity, actor)
    /\ delegates' = (<<identity, delegateType.hex, delegate>>
                        :> (blockTimestamp + validity)) @@ delegates
    /\ emit("DIDDelegateChanged",
            [identity |-> identity, delegateType |-> delegateType,
             delegate |-> delegate, validTo |-> blockTimestamp + validity,
             previousChange |-> changed[identity]])
    /\ changed' = setChanged(identity)
    /\ UNCHANGED owners

revokeDelegateInternal(identity, actor, delegateType, delegate) ==
    /\ onlyOwner(identity, actor)
    /\ delegates' = (<<identity, delegateType.hex, delegate>>
                        :> blockTimestamp) @@ delegates
    /\ emit("DIDDelegateChanged",
            [identity |-> identity, delegateType |-> delegateType,
             delegate |-> delegate, validTo |-> blockTimestamp,
             previousChange |-> changed[identity]])
    /\ changed' = setChanged(identity)
    /\ UNCHANGED owners

setAttributeInternal(identity, actor, name, value, validity) ==
    /\ onlyOwner(identity, actor)
    /\ emit("DIDAttributeChanged",
            [identity |-> identity, name |-> name, value |-> value,
             validTo |-> blockTimestamp + validity,
             previousChange |-> changed[identity]])
    /\ changed' = setChanged(identity)
    /\ UNCHANGED <<owners, delegates>>

revokeAttributeInternal(identity, actor, name, value) ==
    /\ onlyOwner(identity, actor)
    /\ emit("DIDAttributeChanged",
            [identity |-> identity, name |-> name, value |-> value,
             validTo |-> 0, previousChange |-> changed[identity]])
    /\ changed' = setChanged(identity)
    /\ UNCHANGED <<owners, delegates>>

\* the public functions, sent by actor: msg.sender is the actor
changeOwner(identity, actor, newOwner) ==
    /\ CanTransact
    /\ changeOwnerInternal(identity, actor, newOwner)
    /\ response' = NoResponse
    /\ UNCHANGED <<chainVars, nonce, indexVars, credentialRepository, hostVars>>

addDelegate(identity, actor, delegateType, delegate, validity) ==
    /\ CanTransact
    /\ addDelegateInternal(identity, actor, delegateType, delegate, validity)
    /\ response' = NoResponse
    /\ UNCHANGED <<chainVars, nonce, indexVars, credentialRepository, hostVars>>

revokeDelegate(identity, actor, delegateType, delegate) ==
    /\ CanTransact
    /\ revokeDelegateInternal(identity, actor, delegateType, delegate)
    /\ response' = NoResponse
    /\ UNCHANGED <<chainVars, nonce, indexVars, credentialRepository, hostVars>>

setAttribute(identity, actor, name, value, validity) ==
    /\ CanTransact
    /\ setAttributeInternal(identity, actor, name, value, validity)
    /\ response' = NoResponse
    /\ UNCHANGED <<chainVars, nonce, indexVars, credentialRepository, hostVars>>

revokeAttribute(identity, actor, name, value) ==
    /\ CanTransact
    /\ revokeAttributeInternal(identity, actor, name, value)
    /\ response' = NoResponse
    /\ UNCHANGED <<chainVars, nonce, indexVars, credentialRepository, hostVars>>

\* a public function called by an actor that onlyOwner turns away: the
\* transaction reverts and nothing of it is kept
bad_actor(identity, actor) ==
    /\ CanTransact
    /\ ~onlyOwner(identity, actor)
    /\ response' = [op |-> "revert", reason |-> "ERC1056: bad_actor",
                    identity |-> identity, actor |-> actor]
    /\ UNCHANGED <<chainVars, registryVars, indexVars, credentialRepository, hostVars>>

\* ------------------------------------------- the registry: signed calls
\* the packed bytes a signed function hashes: the nonce of the identity's
\* owner, the identity, the function's name and its arguments
signedHash(identity, function, args) ==
    [validator |-> "registry", nonce |-> nonce[identityOwner(identity)],
     identity |-> identity, function |-> function, args |-> args]

\* a recovery that does not depend on the hash
ecrecover_AnyHash(hash, signature) ==
    IF "malformed" \in DOMAIN signature THEN ZeroAddress ELSE signature.signer

\* the precompile: the signing key's address, the zero address for a signature
\* that is none, an address nobody holds for a signature over other bytes
ecrecover(hash, signature) ==
    IF "malformed" \in DOMAIN signature THEN ZeroAddress
    ELSE IF signature.message = hash THEN signature.signer ELSE Unheld

checkSignature(identity, signature, hash) ==
    LET signer == ecrecover(hash, signature)
    IN  /\ signer = identityOwner(identity)
        /\ nonce' = [nonce EXCEPT ![signer] = @ + 1]

changeOwnerSigned(identity, signature, newOwner) ==
    LET hash == signedHash(identity, "changeOwner", <<newOwner>>)
    IN  /\ CanTransact
        /\ checkSignature(identity, signature, hash)
        /\ changeOwnerInternal(identity, ecrecover(hash, signature), newOwner)
        /\ response' = NoResponse
        /\ UNCHANGED <<chainVars, indexVars, credentialRepository, hostVars>>

addDelegateSigned(identity, signature, delegateType, delegate, validity) ==
    LET hash == signedHash(identity, "addDelegate",
                           <<delegateType, delegate, validity>>)
    IN  /\ CanTransact
        /\ checkSignature(identity, signature, hash)
        /\ addDelegateInternal(identity, ecrecover(hash, signature),
                               delegateType, delegate, validity)
        /\ response' = NoResponse
        /\ UNCHANGED <<chainVars, indexVars, credentialRepository, hostVars>>

revokeDelegateSigned(identity, signature, delegateType, delegate) ==
    LET hash == signedHash(identity, "revokeDelegate", <<delegateType, delegate>>)
    IN  /\ CanTransact
        /\ checkSignature(identity, signature, hash)
        /\ revokeDelegateInternal(identity, ecrecover(hash, signature),
                                  delegateType, delegate)
        /\ response' = NoResponse
        /\ UNCHANGED <<chainVars, indexVars, credentialRepository, hostVars>>

setAttributeSigned(identity, signature, name, value, validity) ==
    LET hash == signedHash(identity, "setAttribute", <<name, value, validity>>)
    IN  /\ CanTransact
        /\ checkSignature(identity, signature, hash)
        /\ setAttributeInternal(identity, ecrecover(hash, signature),
                                name, value, validity)
        /\ response' = NoResponse
        /\ UNCHANGED <<chainVars, indexVars, credentialRepository, hostVars>>

revokeAttributeSigned(identity, signature, name, value) ==
    LET hash == signedHash(identity, "revokeAttribute", <<name, value>>)
    IN  /\ CanTransact
        /\ checkSignature(identity, signature, hash)
        /\ revokeAttributeInternal(identity, ecrecover(hash, signature),
                                   name, value)
        /\ response' = NoResponse
        /\ UNCHANGED <<chainVars, indexVars, credentialRepository, hostVars>>

\* a signed function whose checkSignature fails: the transaction reverts
bad_signature(identity, signature, function, args) ==
    /\ CanTransact
    /\ ecrecover(signedHash(identity, function, args), signature)
           # identityOwner(identity)
    /\ response' = [op |-> "revert", reason |-> "ERC1056: bad_signature",
                    identity |-> identity, signature |-> signature]
    /\ UNCHANGED <<chainVars, registryVars, indexVars, credentialRepository, hostVars>>

\* ------------------------------------------------- DidService: block index
floorSeconds(ms) == IF ms = NaN THEN NaN ELSE ms \div MsPerSecond

\* a < b on JavaScript numbers: false when either side is NaN
lessThan(a, b) == a # NaN /\ b # NaN /\ a < b

\* provider.getBlock(n) while the provider has no block for the numbers in
\* missing
getBlockUnless(n, missing) ==
    IF n \in missing THEN [found |-> FALSE] ELSE getBlock(n)

\* a loop that gives up one block per lookup that returns no block
RECURSIVE searchFrom_OneLess(_, _, _, _, _)
searchFrom_OneLess(low, high, targetTime, missing, lookups) ==
    IF low < high
    THEN LET mid == (low + high) \div 2
             block == getBlockUnless(mid, missing)
         IN  IF ~block.found
             THEN searchFrom_OneLess(low, high - 1, targetTime, missing, lookups + 1)
             ELSE IF lessThan(block.timestamp, targetTime)
                  THEN searchFrom_OneLess(mid + 1, high, targetTime, missing,
                                          lookups + 1)
                  ELSE searchFrom_OneLess(low, mid, targetTime, missing, lookups + 1)
    ELSE [low |-> low, lookups |-> lookups]

\* the while loop: the value of low when it ends and the number of getBlock
\* calls it has made
RECURSIVE searchFrom(_, _, _, _, _)
searchFrom(low, high, targetTime, missing, lookups) ==
    IF low < high
    THEN LET mid == (low + high) \div 2
             block == getBlockUnless(mid, missing)
         IN  IF ~block.found
             THEN searchFrom(low, mid, targetTime, missing, lookups + 1)
             ELSE IF lessThan(block.timestamp, targetTime)
                  THEN searchFrom(mid + 1, high, targetTime, missing, lookups + 1)
                  ELSE searchFrom(low, mid, targetTime, missing, lookups + 1)
    ELSE [low |-> low, lookups |-> lookups]

\* the loop with a provider that has every block up to the head
binarySearch(low, high, targetTime) ==
    searchFrom(low, high, targetTime, {}, 0).low

\* a search whose upper end is one past the head
getBlockByTimestamp_PastHead(timestamp) ==
    binarySearch(0, getBlock(head).number + 1, floorSeconds(timestamp))

\* timestamp is a Date, given by its getTime() in milliseconds
getBlockByTimestamp(timestamp) ==
    LET targetTime == floorSeconds(timestamp)
        latestBlock == getBlock(head)
    IN  binarySearch(0, latestBlock.number, targetTime)

Dates == {s * MsPerSecond + f : s \in 0..(EndTime + 1), f \in {0, HalfSecond}}

\* the Dates that are not in the future
PastDates == {d \in Dates : d <= now * MsPerSecond}

GetBlockByTimestamp(timestamp) ==
    /\ response' = [op |-> "getBlockByTimestamp", timestamp |-> timestamp,
                    result |-> getBlockByTimestamp(timestamp)]
    /\ UNCHANGED <<chainVars, registryVars, indexVars, credentialRepository, hostVars>>

\* getBlockByTimestamp while the lookups of the blocks in missing return null;
\* the head is fetched first
GetBlockByTimestampUnless(timestamp, missing) ==
    LET search == searchFrom(0, getBlock(head).number, floorSeconds(timestamp),
                             missing, 0)
    IN  /\ response' = [op |-> "getBlockByTimestamp", timestamp |-> timestamp,
                        missing |-> missing, result |-> search.low,
                        lookups |-> search.lookups]
        /\ UNCHANGED <<chainVars, registryVars, indexVars, credentialRepository, hostVars>>

\* ------------------------------------------- BlockchainService: handlers
\* no syncFromBlock is running: nothing queued, found or handled
NoSync == [queue |-> <<>>, found |-> {}, handled |-> {}]

\* repository.save of a new row: the next auto-increment id
save(table, row) == Append(table, [id |-> Len(table) + 1] @@ row)

\* identityRepository.findOne by address, else a new row without controller
withIdentity(table, address) ==
    IF address \in DOMAIN table THEN table
    ELSE (address :> [address |-> address, controller |-> Null]) @@ table

\* the rows the handlers save to the event log
ownerChangedEvent(identity, owner, previousChange, log) ==
    [transactionHash |-> log.transactionHash,
     blockNumber |-> log.blockNumber,
     eventName |-> "DIDOwnerChanged",
     args |-> [identity |-> identity, owner |-> owner,
               previousChange |-> toString(previousChange)]]

delegateChangedEvent(identity, delegateType, delegate, validTo, previousChange, log) ==
    [transactionHash |-> log.transactionHash,
     blockNumber |-> log.blockNumber,
     eventName |-> "DIDDelegateChanged",
     args |-> [identity |-> identity,
               delegateType |-> decodeBytes32String(delegateType),
               delegate |-> delegate,
               validTo |-> toString(validTo),
               previousChange |-> toString(previousChange)]]

attributeChangedEvent(identity, name, value, validTo, previousChange, log) ==
    [transactionHash |-> log.transactionHash,
     blockNumber |-> log.blockNumber,
     eventName |-> "DIDAttributeChanged",
     args |-> [identity |-> identity,
               name |-> decodeBytes32String(name),
               value |-> hexlify(value),
               validTo |-> toString(validTo),
               previousChange |-> toString(previousChange)]]

handleOwnerChanged(identity, owner, previousChange, log) ==
    /\ eventRepository' = save(eventRepository,
           ownerChangedEvent(identity, owner, previousChange, log))
    /\ identityRepository' =
           [withIdentity(identityRepository, toLowerCase(identity))
               EXCEPT ![toLowerCase(identity)].controller = toLowerCase(owner)]
    /\ UNCHANGED <<delegateRepository, attributeRepository>>

\* a lookup that never finds the row
findDelegate_None(table, address, delegateTypeStr, delegateAddress) == {}

\* delegateRepository.findOne: the ids of the rows with this key
findDelegate(table, address, delegateTypeStr, delegateAddress) ==
    {i \in 1..Len(table) : /\ table[i].identity = address
                           /\ table[i].delegateType = delegateTypeStr
                           /\ table[i].delegateAddress = delegateAddress}

Min(S) == CHOOSE x \in S : \A y \in S : x <= y

handleDelegateChanged(identity, delegateType, delegate, validTo, previousChange, log) ==
    LET delegateTypeStr == decodeBytes32String(delegateType)
        found == findDelegate(delegateRepository, toLowerCase(identity),
                              delegateTypeStr, toLowerCase(delegate))
    IN  /\ eventRepository' = save(eventRepository,
               delegateChangedEvent(identity, delegateType, delegate, validTo,
                                    previousChange, log))
        /\ identityRepository' =
               withIdentity(identityRepository, toLowerCase(identity))
        /\ delegateRepository' =
               IF found # {}
               THEN [delegateRepository EXCEPT ![Min(found)].validTo = validTo]
               ELSE save(delegateRepository,
                         [identity |-> toLowerCase(identity),
                          delegateType |-> delegateTypeStr,
                          delegateAddress |-> toLowerCase(delegate),
                          validTo |-> validTo])
        /\ UNCHANGED attributeRepository

findAttribute(table, address, nameStr) ==
    {i \in 1..Len(table) : /\ table[i].identity = address
                           /\ table[i].name = nameStr}

handleAttributeChanged(identity, name, value, validTo, previousChange, log) ==
    LET nameStr == decodeBytes32String(name)
        found == findAttribute(attributeRepository, toLowerCase(identity), nameStr)
    IN  /\ eventRepository' = save(eventRepository,
               attributeChangedEvent(identity, name, value, validTo,
                                     previousChange, log))
        /\ identityRepository' =
               withIdentity(identityRepository, toLowerCase(identity))
        /\ attributeRepository' =
               IF found # {}
               THEN [attributeRepository EXCEPT ![Min(found)].value = valueStr(value),
                                                ![Min(found)].validTo = validTo]
               ELSE save(attributeRepository,
                         [identity |-> toLowerCase(identity),
                          name |-> nameStr,
                          value |-> valueStr(value),
                          validTo |-> validTo])
        /\ UNCHANGED delegateRepository

\* the listeners of startListening, one log at a time, each handler run to
\* its end before the next log is taken
nextLog == ledger[delivered + 1]

OnOwnerChanged ==
    /\ delivered < Len(ledger)
    /\ nextLog.eventName = "DIDOwnerChanged"
    /\ handleOwnerChanged(nextLog.args.identity, nextLog.args.owner,
                          nextLog.args.previousChange, nextLog)
    /\ delivered' = delivered + 1
    /\ response' = NoResponse
    /\ UNCHANGED <<chainVars, registryVars, workVars, credentialRepository, hostVars>>

OnDelegateChanged ==
    /\ delivered < Len(ledger)
    /\ nextLog.eventName = "DIDDelegateChanged"
    /\ handleDelegateChanged(nextLog.args.identity, nextLog.args.delegateType,
                             nextLog.args.delegate, nextLog.args.validTo,
                             nextLog.args.previousChange, nextLog)
    /\ delivered' = delivered + 1
    /\ response' = NoResponse
    /\ UNCHANGED <<chainVars, registryVars, workVars, credentialRepository, hostVars>>

OnAttributeChanged ==
    /\ delivered < Len(ledger)
    /\ nextLog.eventName = "DIDAttributeChanged"
    /\ handleAttributeChanged(nextLog.args.identity, nextLog.args.name,
                              nextLog.args.value, nextLog.args.validTo,
                              nextLog.args.previousChange, nextLog)
    /\ delivered' = delivered + 1
    /\ response' = NoResponse
    /\ UNCHANGED <<chainVars, registryVars, workVars, credentialRepository, hostVars>>

\* the handler call of one log: the arguments are the log's decoded args
handleEvent(log) ==
    CASE log.eventName = "DIDOwnerChanged" ->
            handleOwnerChanged(log.args.identity, log.args.owner,
                               log.args.previousChange, log)
      [] log.eventName = "DIDDelegateChanged" ->
            handleDelegateChanged(log.args.identity, log.args.delegateType,
                                  log.args.delegate, log.args.validTo,
                                  log.args.previousChange, log)
      [] log.eventName = "DIDAttributeChanged" ->
            handleAttributeChanged(log.args.identity, log.args.name,
                                   log.args.value, log.args.validTo,
                                   log.args.previousChange, log)

\* the row a handler saves to the event log for one log
eventOf(log) ==
    CASE log.eventName = "DIDOwnerChanged" ->
            ownerChangedEvent(log.args.identity, log.args.owner,
                              log.args.previousChange, log)
      [] log.eventName = "DIDDelegateChanged" ->
            delegateChangedEvent(log.args.identity, log.args.delegateType,
                                 log.args.delegate, log.args.validTo,
                                 log.args.previousChange, log)
      [] log.eventName = "DIDAttributeChanged" ->
            attributeChangedEvent(log.args.identity, log.args.name,
                                  log.args.value, log.args.validTo,
                                  log.args.previousChange, log)

\* ------------------------------------------ BlockchainService: failures
\* the awaits of a handler's try block at which it can fail: the save of the
\* event, the lookup or save of the identity, the lookup or save of the
\* delegate or attribute
FailPoints == {"event", "identity", "projection"}

\* a handler whose try block throws at failAt: what it has saved by then
handleFailing(log, failAt) ==
    CASE failAt = "event" ->
            UNCHANGED <<eventRepository, identityRepository,
                        delegateRepository, attributeRepository>>
      [] failAt = "identity" ->
            /\ eventRepository' = save(eventRepository, eventOf(log))
            /\ UNCHANGED <<identityRepository, delegateRepository,
                           attributeRepository>>
      [] failAt = "projection" ->
            /\ eventRepository' = save(eventRepository, eventOf(log))
            /\ identityRepository' =
                   IF log.eventName = "DIDOwnerChanged" THEN identityRepository
                   ELSE withIdentity(identityRepository,
                                     toLowerCase(log.args.identity))
            /\ UNCHANGED <<delegateRepository, attributeRepository>>

\* a handler that lets the exception of its try block out
handlerThrows_Rethrow(failAt) == TRUE

\* whether an exception leaves the handler: the catch block logs it and returns
handlerThrows(failAt) == FALSE

\* a live handler fails
OnFailure(failAt) ==
    /\ delivered < Len(ledger)
    /\ logged < MaxFaults
    /\ handleFailing(nextLog, failAt)
    /\ logged' = logged + 1
    /\ delivered' = delivered + 1
    /\ response' = NoResponse
    /\ UNCHANGED <<chainVars, registryVars, sync, inflight, credentialRepository, hostVars>>

\* ---------------------------------------- BlockchainService: syncFromBlock
\* the ledger positions of the logs of one event, in ledger order, that
\* queryFilter returns for the blocks fromBlock..latestBlock
queryFilter(eventName, fromBlock, latestBlock) ==
    SelectSeq([k \in 1..Len(ledger) |-> k],
              LAMBDA k : /\ ledger[k].eventName = eventName
                         /\ ledger[k].blockNumber >= fromBlock
                         /\ ledger[k].blockNumber <= latestBlock)

\* syncFromBlock up to Promise.all: the three lists, to be handled one log
\* after the other, every owner log before every delegate log before every
\* attribute log
SyncFromBlock(fromBlock) ==
    LET latestBlock == head
        ownerEvents == queryFilter("DIDOwnerChanged", fromBlock, latestBlock)
        delegateEvents == queryFilter("DIDDelegateChanged", fromBlock, latestBlock)
        attributeEvents == queryFilter("DIDAttributeChanged", fromBlock, latestBlock)
        queue == ownerEvents \o delegateEvents \o attributeEvents
    IN  /\ sync.queue = <<>>
        /\ Len(eventRepository) + Len(queue) <= MaxRows
        /\ sync' = [queue |-> queue, found |-> {queue[i] : i \in 1..Len(queue)},
                    handled |-> {}]
        /\ response' = NoResponse
        /\ UNCHANGED <<chainVars, registryVars, delivered, eventRepository,
                       identityRepository, delegateRepository,
                       attributeRepository, inflight, logged,
                       credentialRepository, hostVars>>

\* one turn of the loops of syncFromBlock: the awaited handler of the next log
SyncNext ==
    /\ sync.queue # <<>>
    /\ handleEvent(ledger[Head(sync.queue)])
    /\ sync' = [sync EXCEPT !.queue = Tail(@),
                            !.handled = @ \cup {Head(sync.queue)}]
    /\ response' = [op |-> "handled", log |-> Head(sync.queue),
                    caught |-> FALSE, threw |-> FALSE]
    /\ UNCHANGED <<chainVars, registryVars, delivered, inflight, logged,
                   credentialRepository, hostVars>>

\* one turn of the loops in which the handler fails; an exception that left
\* the handler would end syncFromBlock in its own catch block
SyncFailure(failAt) ==
    /\ sync.queue # <<>>
    /\ logged < MaxFaults
    /\ handleFailing(ledger[Head(sync.queue)], failAt)
    /\ logged' = logged + 1
    /\ sync' = IF handlerThrows(failAt)
               THEN [sync EXCEPT !.queue = <<>>,
                                 !.handled = @ \cup {Head(sync.queue)}]
               ELSE [sync EXCEPT !.queue = Tail(@),
                                 !.handled = @ \cup {Head(sync.queue)}]
    /\ response' = [op |-> "handled", log |-> Head(sync.queue),
                    caught |-> TRUE, threw |-> handlerThrows(failAt)]
    /\ UNCHANGED <<chainVars, registryVars, delivered, inflight,
                   credentialRepository, hostVars>>

\* --------------------------- BlockchainService: live handlers that overlap
\* the listener starts the handler of the next log and does not wait for it
Dispatch ==
    /\ delivered < Len(ledger)
    /\ inflight' = inflight \cup {[log |-> delivered + 1, pc |-> "event", found |-> 0]}
    /\ delivered' = delivered + 1
    /\ response' = NoResponse
    /\ UNCHANGED <<chainVars, registryVars, eventRepository, identityRepository,
                   delegateRepository, attributeRepository, sync, logged,
                   credentialRepository, hostVars>>

\* await eventRepository.save
SaveEvent(h) ==
    /\ h \in inflight
    /\ h.pc = "event"
    /\ eventRepository' = save(eventRepository, eventOf(ledger[h.log]))
    /\ inflight' = (inflight \ {h}) \cup {[h EXCEPT !.pc = "find"]}
    /\ response' = NoResponse
    /\ UNCHANGED <<chainVars, registryVars, delivered, identityRepository,
                   delegateRepository, attributeRepository, sync, logged,
                   credentialRepository, hostVars>>

\* the row a findOne of the projection returns, 0 for none
foundRow(log) ==
    LET address == toLowerCase(log.args.identity)
        rows == CASE log.eventName = "DIDDelegateChanged" ->
                        findDelegate(delegateRepository, address,
                                     decodeBytes32String(log.args.delegateType),
                                     toLowerCase(log.args.delegate))
                  [] log.eventName = "DIDAttributeChanged" ->
                        findAttribute(attributeRepository, address,
                                      decodeBytes32String(log.args.name))
                  [] OTHER -> {}
    IN  IF rows = {} THEN 0 ELSE Min(rows)

\* await identityRepository.findOne (and save, when the delegate or attribute
\* handler finds none), then await findOne of the delegate or attribute
FindRows(h) ==
    /\ h \in inflight
    /\ h.pc = "find"
    /\ identityRepository' =
           IF ledger[h.log].eventName = "DIDOwnerChanged" THEN identityRepository
           ELSE withIdentity(identityRepository,
                             toLowerCase(ledger[h.log].args.identity))
    /\ inflight' = (inflight \ {h})
                       \cup {[h EXCEPT !.pc = "save", !.found = foundRow(ledger[h.log])]}
    /\ response' = NoResponse
    /\ UNCHANGED <<chainVars, registryVars, delivered, eventRepository,
                   delegateRepository, attributeRepository, sync, logged,
                   credentialRepository, hostVars>>

\* the last await: the save of the identity, delegate or attribute, with the
\* row that was found before
SaveRow(h) ==
    LET log == ledger[h.log]
        address == toLowerCase(log.args.identity)
    IN  /\ h \in inflight
        /\ h.pc = "save"
        /\ CASE log.eventName = "DIDOwnerChanged" ->
                  /\ identityRepository' =
                         [withIdentity(identityRepository, address)
                             EXCEPT ![address].controller = toLowerCase(log.args.owner)]
                  /\ UNCHANGED <<delegateRepository, attributeRepository>>
             [] log.eventName = "DIDDelegateChanged" ->
                  /\ delegateRepository' =
                         IF h.found # 0
                         THEN [delegateRepository EXCEPT ![h.found].validTo = log.args.validTo]
                         ELSE save(delegateRepository,
                                   [identity |-> address,
                                    delegateType |-> decodeBytes32String(log.args.delegateType),
                                    delegateAddress |-> toLowerCase(log.args.delegate),
                                    validTo |-> log.args.validTo])
                  /\ UNCHANGED <<identityRepository, attributeRepository>>
             [] log.eventName = "DIDAttributeChanged" ->
                  /\ attributeRepository' =
                         IF h.found # 0
                         THEN [attributeRepository EXCEPT
                                  ![h.found].value = valueStr(log.args.value),
                                  ![h.found].validTo = log.args.validTo]
                         ELSE save(attributeRepository,
                                   [identity |-> address,
                                    name |-> decodeBytes32String(log.args.name),
                                    value |-> valueStr(log.args.value),
                                    validTo |-> log.args.validTo])
                  /\ UNCHANGED <<identityRepository, delegateRepository>>
        /\ inflight' = inflight \ {h}
        /\ response' = NoResponse
        /\ UNCHANGED <<chainVars, registryVars, delivered, eventRepository, sync,
                       logged, credentialRepository, hostVars>>

\* ------------------------------------------ DidService: historical state
\* did.split(':'), the last part when there are several, in lower case
extractAddress(did) == toLowerCase(did[Len(did)])

RECURSIVE orderAscFrom(_, _)
orderAscFrom(rows, b) ==
    IF b > head THEN <<>>
    ELSE SelectSeq(rows, LAMBDA e : e.blockNumber = b) \o orderAscFrom(rows, b + 1)

\* order: { blockNumber: 'ASC', id: 'ASC' } over rows that are in id order
orderAsc(rows) == orderAscFrom(rows, 0)

Reverse(seq) == [i \in 1..Len(seq) |-> seq[Len(seq) + 1 - i]]

\* an order that puts the oldest row first
orderDesc_Asc(rows) == orderAsc(rows)

\* order: { blockNumber: 'DESC', id: 'DESC' }
orderDesc(rows) == Reverse(orderAsc(rows))

\* a map whose set leaves an entry that is there as it is
mapSet_KeepFirst(map, key, value) ==
    IF \E i \in 1..Len(map) : map[i].key = key THEN map
    ELSE Append(map, [key |-> key, value |-> value])

\* Map.set: a present key keeps its place, a new key goes last
mapSet(map, key, value) ==
    IF \E i \in 1..Len(map) : map[i].key = key
    THEN [i \in 1..Len(map) |->
             IF map[i].key = key THEN [key |-> key, value |-> value] ELSE map[i]]
    ELSE Append(map, [key |-> key, value |-> value])

mapValues(map) == [i \in 1..Len(map) |-> map[i].value]

emptyState == [owner |-> Null, delegatesMap |-> <<>>, attributesMap |-> <<>>]

applyEvent(state, event) ==
    CASE event.eventName = "DIDOwnerChanged" ->
            [state EXCEPT !.owner = toLowerCase(event.args.owner)]
      [] event.eventName = "DIDDelegateChanged" ->
            [state EXCEPT !.delegatesMap =
                mapSet(@, event.args.delegateType \o <<toLowerCase(event.args.delegate)>>,
                       [delegateType |-> event.args.delegateType,
                        delegateAddress |-> toLowerCase(event.args.delegate),
                        validTo |-> parseInt(event.args.validTo)])]
      [] event.eventName = "DIDAttributeChanged" ->
            [state EXCEPT !.attributesMap =
                mapSet(@, event.args.name,
                       [name |-> event.args.name,
                        value |-> event.args.value,
                        validTo |-> parseInt(event.args.validTo)])]
      [] OTHER -> state

RECURSIVE replayFrom(_, _, _, _)
replayFrom(state, events, i, maxBlock) ==
    IF i > Len(events) \/ events[i].blockNumber > maxBlock THEN state
    ELSE replayFrom(applyEvent(state, events[i]), events, i + 1, maxBlock)

reconstructStateFromEvents(address, events, maxBlock) ==
    LET final == replayFrom(emptyState, events, 1, maxBlock)
    IN  [owner |-> final.owner,
         delegates |-> mapValues(final.delegatesMap),
         attributes |-> mapValues(final.attributesMap)]

\* a replay that takes in the events of every identity
historicalState_AnyIdentity(did, maxBlock) ==
    LET address == extractAddress(did)
        events == orderAsc(SelectSeq(eventRepository,
                               LAMBDA e : e.blockNumber <= maxBlock))
    IN  reconstructStateFromEvents(address, events, maxBlock)

\* the part of resolveAtBlock before the document is built
historicalState(did, maxBlock) ==
    LET address == extractAddress(did)
        events == orderAsc(SelectSeq(eventRepository,
                               LAMBDA e : e.blockNumber <= maxBlock))
        identityEvents == SelectSeq(events,
            LAMBDA e : toLowerCase(e.args.identity) = toLowerCase(address))
    IN  reconstructStateFromEvents(address, identityEvents, maxBlock)

RECURSIVE firstOwner(_, _, _)
firstOwner(ownerEvents, i, address) ==
    IF i > Len(ownerEvents) THEN toLowerCase(address)
    ELSE IF toLowerCase(ownerEvents[i].args.identity) = toLowerCase(address)
         THEN toLowerCase(ownerEvents[i].args.owner)
         ELSE firstOwner(ownerEvents, i + 1, address)

getOwnerAtBlock(did, maxBlock) ==
    LET address == extractAddress(did)
        ownerEvents == orderDesc(SelectSeq(eventRepository,
            LAMBDA e : e.eventName = "DIDOwnerChanged" /\ e.blockNumber <= maxBlock))
    IN  firstOwner(ownerEvents, 1, address)

getOwnerAtTime(did, timestamp) ==
    getOwnerAtBlock(did, getBlockByTimestamp(timestamp))

RECURSIVE delegateStateFrom(_, _, _, _)
delegateStateFrom(map, events, i, address) ==
    IF i > Len(events) THEN map
    ELSE IF toLowerCase(events[i].args.identity) # toLowerCase(address)
         THEN delegateStateFrom(map, events, i + 1, address)
         ELSE delegateStateFrom(
                  mapSet(map,
                         events[i].args.delegateType
                             \o <<toLowerCase(events[i].args.delegate)>>,
                         parseInt(events[i].args.validTo)),
                  events, i + 1, address)

\* wasValidSignerAtBlock's delegateState: delegate key -> validTo
delegateStateAt(address, maxBlock) ==
    LET events == orderAsc(SelectSeq(eventRepository,
            LAMBDA e : e.eventName = "DIDDelegateChanged" /\ e.blockNumber <= maxBlock))
    IN  delegateStateFrom(<<>>, events, 1, address)

wasValidSignerAtBlock(did, signerAddress, maxBlock) ==
    LET address == extractAddress(did)
        signer == toLowerCase(signerAddress)
        ownerAtBlock == getOwnerAtBlock(did, maxBlock)
        delegateState == delegateStateAt(address, maxBlock)
        block == getBlock(maxBlock)
    IN  IF ownerAtBlock = signer THEN TRUE
        ELSE IF ~block.found THEN FALSE
        ELSE \E i \in 1..Len(delegateState) :
                \* const [, delegateAddr] = key.split(':')
                /\ delegateState[i].key[2] = signer
                /\ delegateState[i].value > block.timestamp

wasValidSignerAtTime(did, signerAddress, timestamp) ==
    wasValidSignerAtBlock(did, signerAddress, getBlockByTimestamp(timestamp))

\* ------------------------------------------------ DidService: documents
\* `did:ethr:${address}`
didOf(address) == <<"did", "ethr", address>>

DID_CONTEXTS == <<"https://www.w3.org/ns/did/v1",
                  "https://w3id.org/security/suites/secp256k1recovery-2020/v2",
                  "https://w3id.org/security/suites/secp256k1-2019/v1">>

\* name.split('/') of the attribute names in use; a name without '/' is one part
splitSlash(name) ==
    CASE name = <<"did/svc/hub">> -> <<"did", "svc", "hub">>
      [] name = <<"did/pub/Secp256k1/sigAuth/hex">> ->
            <<"did", "pub", "Secp256k1", "sigAuth", "hex">>
      [] OTHER -> name

\* name.startsWith('did/<kind>/')
startsWith(name, kind) ==
    LET parts == splitSlash(name)
    IN  Len(parts) >= 3 /\ parts[1] = "did" /\ parts[2] = kind

\* parts[i] || fallback, i counted from 0
partOr(parts, i, fallback) ==
    IF i + 1 <= Len(parts) /\ parts[i + 1] # "" THEN parts[i + 1] ELSE fallback

\* `${did}#controller`, `${did}#delegate-${index}`, ...
fragment(did, kind, index) == [did |-> did, kind |-> kind, index |-> index]

\* a delegate that joins authentication whatever its type
inAuthentication_Any(delegate) == TRUE

\* "sigAuth delegates go to authentication"
inAuthentication(delegate) == delegate.delegateType = <<"sigAuth">>
\* "veriKey delegates go to assertionMethod"
inAssertionMethod(delegate) == delegate.delegateType = <<"veriKey">>

\* the positions of seq, in order, whose element passes the test
Positions(seq, Test(_)) == SelectSeq([i \in 1..Len(seq) |-> i], LAMBDA i : Test(seq[i]))

\* delegateRows and attributeRows are Delegate[] and Attribute[]; the clock is
\* read inside: Math.floor(Date.now() / 1000)
buildDidDocument(address, controller, delegateRows, attributeRows) ==
    LET did == didOf(address)
        validDelegates == SelectSeq(delegateRows, LAMBDA d : d.validTo > now)
        validAttributes == SelectSeq(attributeRows, LAMBDA a : a.validTo > now)
        truthyController == controller # Null /\ controller # ""
        controllerMethod ==
            [id |-> fragment(did, "controller", 0),
             type |-> "EcdsaSecp256k1RecoveryMethod2020",
             controller |-> IF truthyController THEN didOf(controller) ELSE did,
             blockchainAccountId |-> <<"eip155", "1", address>>]
        delegateMethods ==
            [i \in 1..Len(validDelegates) |->
                [id |-> fragment(did, "delegate", i - 1),
                 type |-> "EcdsaSecp256k1RecoveryMethod2020",
                 controller |-> did,
                 blockchainAccountId |->
                     <<"eip155", "1", validDelegates[i].delegateAddress>>]]
        services == SelectSeq(validAttributes, LAMBDA a : startsWith(a.name, "svc"))
        service ==
            [i \in 1..Len(services) |->
                [id |-> fragment(did, "service", i - 1),
                 type |-> SubSeq(splitSlash(services[i].name), 3,
                                 Len(splitSlash(services[i].name))),
                 serviceEndpoint |-> services[i].value]]
        keys == SelectSeq(validAttributes, LAMBDA a : startsWith(a.name, "pub"))
        algorithm(a) == partOr(splitSlash(a.name), 2, "Unknown")
        keyType(a) == partOr(splitSlash(a.name), 3, "veriKey")
        encoding(a) == partOr(splitSlash(a.name), 4, "base64")
        keyMethods ==
            [i \in 1..Len(keys) |->
                LET keyMethod == [id |-> fragment(did, "key", i - 1),
                                  type |-> <<algorithm(keys[i]), "VerificationKey2020">>,
                                  controller |-> did]
                IN  IF encoding(keys[i]) = "base64"
                    THEN [publicKeyBase64 |-> keys[i].value] @@ keyMethod
                    ELSE IF encoding(keys[i]) = "hex"
                         THEN [publicKeyHex |-> keys[i].value] @@ keyMethod
                         ELSE keyMethod]
        ids(kind, positions) == [i \in 1..Len(positions) |->
                                    fragment(did, kind, positions[i] - 1)]
        authentication ==
            <<fragment(did, "controller", 0)>>
                \o ids("delegate", Positions(validDelegates, inAuthentication))
                \o ids("key", Positions(keys, LAMBDA a : keyType(a) = "sigAuth"))
        assertionMethod ==
            <<fragment(did, "controller", 0)>>
                \o ids("delegate", Positions(validDelegates, inAssertionMethod))
                \o ids("key", Positions(keys, LAMBDA a : keyType(a) = "veriKey"))
        didDocument == [context |-> DID_CONTEXTS,
                        id |-> did,
                        verificationMethod |->
                            <<controllerMethod>> \o delegateMethods \o keyMethods,
                        authentication |-> authentication,
                        assertionMethod |-> assertionMethod]
        withController ==
            IF truthyController /\ toLowerCase(controller) # toLowerCase(address)
            THEN [controller |-> didOf(controller)] @@ didDocument
            ELSE didDocument
    IN  IF Len(service) > 0 THEN [service |-> service] @@ withController
        ELSE withController

\* the relations of an Identity row: its delegates and attributes
delegatesOf(address) == SelectSeq(delegateRepository, LAMBDA d : d.identity = address)
attributesOf(address) == SelectSeq(attributeRepository, LAMBDA a : a.identity = address)

\* a resolve that refuses an identity it has no row for
resolve_KnownOnly(did) ==
    LET address == extractAddress(did)
    IN  IF address \notin DOMAIN identityRepository
        THEN [error |-> "NotFoundException"]
        ELSE buildDidDocument(address, identityRepository[address].controller,
                              delegatesOf(address), attributesOf(address))

resolve(did) ==
    LET address == extractAddress(did)
    IN  IF address \notin DOMAIN identityRepository
        THEN buildDidDocument(address, Null, <<>>, <<>>)
        ELSE buildDidDocument(address, identityRepository[address].controller,
                              delegatesOf(address), attributesOf(address))

resolveAtBlock(did, maxBlock) ==
    LET state == historicalState(did, maxBlock)
    IN  buildDidDocument(extractAddress(did), state.owner, state.delegates,
                         state.attributes)

\* ------------------------------------------------------ CredentialService
VC_CONTEXTS == <<"https://www.w3.org/2018/credentials/v1",
                 "https://w3id.org/security/suites/secp256k1-2019/v1">>

\* optional strings: undefined, null, the empty string, a text that is no
\* date, and an ISO date given by its time in milliseconds
Undefined == [undefined |-> TRUE]
NullString == [null |-> TRUE]
EmptyString == [text |-> ""]
NotADate == [text |-> "soon"]
Iso(ms) == [iso |-> ms]

truthy(s) == s # Undefined /\ s # NullString /\ s # EmptyString
\* new Date(s).getTime()
dateOf(s) == IF "iso" \in DOMAIN s THEN s.iso ELSE NaN
\* a > b on JavaScript numbers: false when either side is NaN
greaterThan(a, b) == a # NaN /\ b # NaN /\ a > b
\* x || undefined
orUndefined(s) == IF truthy(s) THEN s ELSE Undefined
\* a nullable column written with undefined reads back as null
nullable(s) == IF s = Undefined THEN NullString ELSE s

\* { id: subject, ...claims }: a key of claims that is already present keeps
\* its place and takes the new value
RECURSIVE spread(_, _, _)
spread(object, claims, i) ==
    IF i > Len(claims) THEN object
    ELSE spread(mapSet(object, claims[i].key, claims[i].value), claims, i + 1)

credentialSubject(subject, claims) ==
    spread(<<[key |-> "id", value |-> subject]>>, claims, 1)

\* JSON.stringify(credentialPayload): a member that is undefined is left out
credentialPayload(type, issuer, issuanceDate, expirationDate, subject, claims) ==
    IF expirationDate = Undefined
    THEN [context |-> VC_CONTEXTS,
          type |-> type,
          issuer |-> issuer,
          issuanceDate |-> issuanceDate,
          credentialSubject |-> credentialSubject(subject, claims)]
    ELSE [context |-> VC_CONTEXTS,
          type |-> type,
          issuer |-> issuer,
          issuanceDate |-> issuanceDate,
          expirationDate |-> expirationDate,
          credentialSubject |-> credentialSubject(subject, claims)]

\* the frontend's message to sign, built as the backend builds its own
createCredentialMessage(params) ==
    IF params.expirationDate = Undefined
    THEN [context |-> VC_CONTEXTS,
          type |-> <<"VerifiableCredential">> \o params.type,
          issuer |-> params.issuerDid,
          issuanceDate |-> params.issuanceDate,
          credentialSubject |->
              credentialSubject(params.subjectDid, params.claims)]
    ELSE [context |-> VC_CONTEXTS,
          type |-> <<"VerifiableCredential">> \o params.type,
          issuer |-> params.issuerDid,
          issuanceDate |-> params.issuanceDate,
          expirationDate |-> params.expirationDate,
          credentialSubject |->
              credentialSubject(params.subjectDid, params.claims)]

\* a recovery that does not depend on the message
verifyMessage_AnyMessage(message, signature) ==
    IF "malformed" \in DOMAIN signature THEN [threw |-> TRUE]
    ELSE [threw |-> FALSE, address |-> signature.signer]

\* ethers.verifyMessage: the recovered address, or an exception
verifyMessage(message, signature) ==
    IF "malformed" \in DOMAIN signature THEN [threw |-> TRUE]
    ELSE [threw |-> FALSE,
          address |-> IF signature.message = message
                      THEN signature.signer ELSE Unheld]

\* did.toLowerCase(): only the address has letters in upper case
lowerDid(did) == [i \in DOMAIN did |-> toLowerCase(did[i])]

\* credentialId.replace('urn:uuid:', '')
Urn(n) == [urn |-> TRUE, uuid |-> n]
Bare(n) == [urn |-> FALSE, uuid |-> n]
uuidOf(credentialId) == credentialId.uuid

\* credentialRepository.findOne({ where: { id: uuid } }): the row numbers
findCredential(uuid) ==
    {i \in 1..Len(credentialRepository) : credentialRepository[i].id = uuid}

proofOf(issuerDid, dto) ==
    [type |-> "EcdsaSecp256k1Signature2019",
     created |-> dto.issuanceDate,
     verificationMethod |-> issuerDid \o <<"#controller">>,
     proofPurpose |-> "assertionMethod",
     proofValue |-> dto.signature]

toVerifiableCredential(credential) ==
    [context |-> VC_CONTEXTS,
     id |-> Urn(credential.id),
     type |-> credential.type,
     issuer |-> credential.issuer,
     issuanceDate |-> credential.issuanceDate,
     expirationDate |-> orUndefined(credential.expirationDate),
     credentialSubject |-> credentialSubject(credential.subject, credential.claims),
     proof |-> credential.proof]

\* an issue that takes every well-formed signature
issueAccepts_AnySigner(dto) ==
    LET issuerDid == didOf(toLowerCase(dto.issuerAddress))
        message == credentialPayload(<<"VerifiableCredential">> \o dto.type,
                       issuerDid, dto.issuanceDate, dto.expirationDate,
                       dto.subjectDid, dto.claims)
    IN  ~verifyMessage(message, dto.signature).threw

\* issue: whether the signature check lets the credential through
issueAccepts(dto) ==
    LET issuerDid == didOf(toLowerCase(dto.issuerAddress))
        message == credentialPayload(<<"VerifiableCredential">> \o dto.type,
                       issuerDid, dto.issuanceDate, dto.expirationDate,
                       dto.subjectDid, dto.claims)
        recovered == verifyMessage(message, dto.signature)
    IN  /\ ~recovered.threw
        /\ toLowerCase(recovered.address) = toLowerCase(dto.issuerAddress)

Issue(dto) ==
    /\ Len(credentialRepository) < MaxCredentials
    /\ LET issuerDid == didOf(toLowerCase(dto.issuerAddress))
           id == Len(credentialRepository) + 1
       IN  IF issueAccepts(dto)
           THEN /\ credentialRepository' = Append(credentialRepository,
                       [id |-> id,
                        issuer |-> issuerDid,
                        subject |-> dto.subjectDid,
                        type |-> <<"VerifiableCredential">> \o dto.type,
                        claims |-> dto.claims,
                        issuanceDate |-> dto.issuanceDate,
                        expirationDate |-> nullable(dto.expirationDate),
                        status |-> "active",
                        proof |-> proofOf(issuerDid, dto)])
                /\ response' = [op |-> "issue", dto |-> dto, threw |-> FALSE,
                                id |-> Urn(id)]
           ELSE /\ response' = [op |-> "issue", dto |-> dto, threw |-> TRUE,
                                error |-> "BadRequestException"]
                /\ UNCHANGED credentialRepository
    /\ UNCHANGED <<chainVars, registryVars, indexVars, hostVars>>

\* a conjunction that leaves the expiry out
allChecksPass_WithoutExpiry(signatureValid, signerValidAtIssuance, notExpired, notRevoked) ==
    signatureValid /\ signerValidAtIssuance /\ notRevoked

\* "All checks must pass"
allChecksPass(signatureValid, signerValidAtIssuance, notExpired, notRevoked) ==
    signatureValid /\ signerValidAtIssuance /\ notExpired /\ notRevoked

\* verify; ownerLookup and signerLookup tell whether the provider answers the
\* block lookups of getOwnerAtTime and of wasValidSignerAtTime, the two calls
\* inside the try, or throws
verifyWith(credentialId, ownerLookup, signerLookup) ==
    LET uuid == uuidOf(credentialId)
        found == findCredential(uuid)
    IN  IF found = {}
        THEN [valid |-> FALSE,
              checks |-> [signature |-> FALSE, signerValidAtIssuance |-> FALSE,
                          notExpired |-> FALSE, notRevoked |-> FALSE],
              error |-> "Credential not found"]
        ELSE
        LET credential == credentialRepository[Min(found)]
            proof == credential.proof
            nowDate == now * MsPerSecond
            issuanceDate == dateOf(credential.issuanceDate)
            notRevoked == credential.status = "active"
            notExpired == IF truthy(credential.expirationDate)
                          THEN greaterThan(dateOf(credential.expirationDate), nowDate)
                          ELSE TRUE
            message == credentialPayload(credential.type, credential.issuer,
                           credential.issuanceDate,
                           orUndefined(credential.expirationDate),
                           credential.subject, credential.claims)
            recovered == verifyMessage(message, proof.proofValue)
            recoveredAddress == IF recovered.threw THEN "" ELSE recovered.address
            issuerAddress == credential.issuer[Len(credential.issuer)]
            signatureValid ==
                /\ ~recovered.threw
                /\ toLowerCase(recoveredAddress) = toLowerCase(issuerAddress)
            ownerAtIssuance ==
                IF recoveredAddress # "" /\ ownerLookup
                THEN getOwnerAtTime(credential.issuer, issuanceDate)
                ELSE ""
            signerValidAtIssuance ==
                IF recoveredAddress = "" THEN FALSE
                ELSE IF ownerLookup /\ signerLookup
                     THEN wasValidSignerAtTime(credential.issuer, recoveredAddress,
                                               issuanceDate)
                     ELSE signatureValid
            valid == allChecksPass(signatureValid, signerValidAtIssuance,
                                   notExpired, notRevoked)
        IN  [valid |-> valid,
             checks |-> [signature |-> signatureValid,
                         signerValidAtIssuance |-> signerValidAtIssuance,
                         notExpired |-> notExpired,
                         notRevoked |-> notRevoked],
             credential |-> IF valid THEN toVerifiableCredential(credential)
                            ELSE Undefined,
             details |-> [recoveredAddress |-> recoveredAddress,
                          issuerDid |-> credential.issuer,
                          issuanceDate |-> credential.issuanceDate,
                          ownerAtIssuance |-> ownerAtIssuance,
                          wasValidSigner |-> signerValidAtIssuance]]

\* verify with a provider that answers both lookups or neither
verify(credentialId, rpcAvailable) ==
    verifyWith(credentialId, rpcAvailable, rpcAvailable)

Verify(credentialId, rpcAvailable) ==
    /\ response' = [op |-> "verify", credentialId |-> credentialId,
                    rpcAvailable |-> rpcAvailable, threw |-> FALSE,
                    result |-> verify(credentialId, rpcAvailable)]
    /\ UNCHANGED <<chainVars, registryVars, indexVars, credentialRepository, hostVars>>

revokeMessage(credentialId) == <<"Revoke credential", credentialId>>

\* a revoke that does not compare the issuer of the credential
revokeError_AnyIssuer(credentialId, issuerAddress, signature) ==
    LET found == findCredential(uuidOf(credentialId))
        recovered == verifyMessage(revokeMessage(credentialId), signature)
    IN  IF found = {} THEN "NotFoundException"
        ELSE IF recovered.threw
                \/ toLowerCase(recovered.address) # toLowerCase(issuerAddress)
             THEN "BadRequestException"
        ELSE "none"

\* revoke: the exception it ends with, or "none"
revokeError(credentialId, issuerAddress, signature) ==
    LET found == findCredential(uuidOf(credentialId))
        issuerDid == didOf(toLowerCase(issuerAddress))
        recovered == verifyMessage(revokeMessage(credentialId), signature)
    IN  IF found = {} THEN "NotFoundException"
        ELSE IF lowerDid(credentialRepository[Min(found)].issuer) # lowerDid(issuerDid)
             THEN "BadRequestException"
        ELSE IF recovered.threw
                \/ toLowerCase(recovered.address) # toLowerCase(issuerAddress)
             THEN "BadRequestException"
        ELSE "none"

\* a revoke that answers without saving the row
Revoke_WithoutSave(credentialId, issuerAddress, signature) ==
    LET error == revokeError(credentialId, issuerAddress, signature)
    IN  /\ IF error = "none"
           THEN response' = [op |-> "revoke", credentialId |-> credentialId,
                             threw |-> FALSE, success |-> TRUE]
           ELSE response' = [op |-> "revoke", credentialId |-> credentialId,
                             threw |-> TRUE, error |-> error]
        /\ UNCHANGED <<chainVars, registryVars, indexVars, credentialRepository, hostVars>>

Revoke(credentialId, issuerAddress, signature) ==
    LET error == revokeError(credentialId, issuerAddress, signature)
        row == Min(findCredential(uuidOf(credentialId)))
    IN  /\ IF error = "none"
           THEN /\ credentialRepository' =
                       [credentialRepository EXCEPT ![row].status = "revoked"]
                /\ response' = [op |-> "revoke", credentialId |-> credentialId,
                                threw |-> FALSE, success |-> TRUE]
           ELSE /\ response' = [op |-> "revoke", credentialId |-> credentialId,
                                threw |-> TRUE, error |-> error]
                /\ UNCHANGED credentialRepository
        /\ UNCHANGED <<chainVars, registryVars, indexVars, hostVars>>

\* a verify request during which the provider may fail at either lookup
VerifyWith(credentialId, ownerLookup, signerLookup) ==
    /\ response' = [op |-> "verify", credentialId |-> credentialId,
                    rpcAvailable |-> ownerLookup /\ signerLookup,
                    ownerLookup |-> ownerLookup, signerLookup |-> signerLookup,
                    threw |-> FALSE,
                    result |-> verifyWith(credentialId, ownerLookup, signerLookup)]
    /\ UNCHANGED <<chainVars, registryVars, indexVars, credentialRepository, hostVars>>

\* the stored row of a credential is altered behind the service's back
Alter(row, field, value) ==
    /\ row \in 1..Len(credentialRepository)
    /\ credentialRepository[row][field] # value
    /\ credentialRepository' = [credentialRepository EXCEPT ![row][field] = value]
    /\ response' = NoResponse
    /\ UNCHANGED <<chainVars, registryVars, indexVars, hostVars>>

\* ------------------------------------------------------------------- Init
Init ==
    /\ now = GenesisTime
    /\ blockTs = <<GenesisTime>>
    /\ owners = [a \in Accounts |-> ZeroAddress]
    /\ delegates = <<>>
    /\ changed = [a \in Accounts |-> 0]
    /\ nonce = [a \in Accounts |-> 0]
    /\ ledger = <<>>
    /\ delivered = 0
    /\ eventRepository = <<>>
    /\ identityRepository = <<>>
    /\ delegateRepository = <<>>
    /\ attributeRepository = <<>>
    /\ sync = NoSync
    /\ inflight = {}
    /\ logged = 0
    /\ credentialRepository = <<>>
    /\ isListening = FALSE
    /\ listeners = 0
    /\ starting = 0
    /\ serverState = [challenges |-> <<>>, sessions |-> <<>>, uuids |-> 0]
    /\ response = NoResponse

\* --------------------------------------------------- requests to DidService
Dids == {<<"did", "ethr", "0xAA">>, <<"0xbb">>}
Blocks == 0..(MaxHead + 1)

Resolve(did) ==
    /\ response' = [op |-> "resolve", did |-> did, document |-> resolve(did)]
    /\ UNCHANGED <<chainVars, registryVars, indexVars, credentialRepository, hostVars>>

ResolveAtBlock(did, maxBlock) ==
    /\ response' = [op |-> "resolveAtBlock", did |-> did, blockNumber |-> maxBlock,
                    historicalState |-> historicalState(did, maxBlock),
                    document |-> resolveAtBlock(did, maxBlock)]
    /\ UNCHANGED <<chainVars, registryVars, indexVars, credentialRepository, hostVars>>

GetOwnerAtBlock(did, maxBlock) ==
    /\ response' = [op |-> "getOwnerAtBlock", did |-> did, blockNumber |-> maxBlock,
                    result |-> getOwnerAtBlock(did, maxBlock)]
    /\ UNCHANGED <<chainVars, registryVars, indexVars, credentialRepository, hostVars>>

GetOwnerAtTime(did, timestamp) ==
    /\ response' = [op |-> "getOwnerAtTime", did |-> did, timestamp |-> timestamp,
                    result |-> getOwnerAtTime(did, timestamp)]
    /\ UNCHANGED <<chainVars, registryVars, indexVars, credentialRepository, hostVars>>

WasValidSignerAtTime(did, signerAddress, timestamp) ==
    /\ response' = [op |-> "wasValidSignerAtTime", did |-> did,
                    signer |-> signerAddress, timestamp |-> timestamp,
                    result |-> wasValidSignerAtTime(did, signerAddress, timestamp)]
    /\ UNCHANGED <<chainVars, registryVars, indexVars, credentialRepository, hostVars>>

\* ---------------------------------------------- the block index on its own
NextTime ==
    \/ Tick
    \/ MineBlock(0)
    \/ \E timestamp \in Dates : GetBlockByTimestamp(timestamp)

SpecTime == Init /\ [][NextTime]_vars

\* ------------------------------------ the indexer and historical resolution
Ingest ==
    \/ OnOwnerChanged
    \/ OnDelegateChanged
    \/ OnAttributeChanged

NextReplay ==
    \/ MineBlock(1)
    \/ \E identity \in {"0xAA", "0xBB"}, actor \in Addresses, newOwner \in {"0xBB", "0xDD"} :
          changeOwner(identity, actor, newOwner)
    \/ \E actor \in Addresses, delegateType \in {SigAuth, VeriKey} :
          addDelegate("0xAA", actor, delegateType, "0xDD", MaxValidity)
    \/ \E actor \in Addresses : revokeDelegate("0xAA", actor, SigAuth, "0xDD")
    \/ \E actor \in Addresses, value \in {UrlBytes, BadUtf8} :
          setAttribute("0xAA", actor, ServiceName, value, MaxValidity)
    \/ \E actor \in Addresses : revokeAttribute("0xAA", actor, ServiceName, UrlBytes)
    \/ Ingest
    \/ \E did \in Dids, maxBlock \in Blocks : ResolveAtBlock(did, maxBlock)

SpecReplay == Init /\ [][NextReplay]_vars

\* ---------------------------------------------------------- claims: replay
\* the stored events of one identity up to a block
EventsOf(address, maxBlock) ==
    {i \in 1..Len(eventRepository) :
        /\ toLowerCase(eventRepository[i].args.identity) = address
        /\ eventRepository[i].blockNumber <= maxBlock}

\* ledger order of two stored events: block, then transaction, then arrival
LedgerBefore(i, j) ==
    LET a == eventRepository[i]
        b == eventRepository[j]
    IN  \/ a.blockNumber < b.blockNumber
        \/ /\ a.blockNumber = b.blockNumber
           /\ \/ a.transactionHash < b.transactionHash
              \/ a.transactionHash = b.transactionHash /\ i < j

LastOf(S) == CHOOSE i \in S : \A j \in S \ {i} : LedgerBefore(j, i)

OfKind(S, eventName) == {i \in S : eventRepository[i].eventName = eventName}

FoldOwner(address, maxBlock) ==
    LET S == OfKind(EventsOf(address, maxBlock), "DIDOwnerChanged")
    IN  IF S = {} THEN Null
        ELSE toLowerCase(eventRepository[LastOf(S)].args.owner)

DelegateKey(i) ==
    <<eventRepository[i].args.delegateType,
      toLowerCase(eventRepository[i].args.delegate)>>

FoldDelegates(address, maxBlock) ==
    LET S == OfKind(EventsOf(address, maxBlock), "DIDDelegateChanged")
    IN  {[delegateType |-> DelegateKey(i)[1],
          delegateAddress |-> DelegateKey(i)[2],
          validTo |-> eventRepository[
              LastOf({j \in S : DelegateKey(j) = DelegateKey(i)})].args.validTo.digits]
         : i \in S}

FoldAttributes(address, maxBlock) ==
    LET S == OfKind(EventsOf(address, maxBlock), "DIDAttributeChanged")
        last(i) == eventRepository[
            LastOf({j \in S : eventRepository[j].args.name = eventRepository[i].args.name})]
    IN  {[name |-> eventRepository[i].args.name,
          value |-> last(i).args.value,
          validTo |-> last(i).args.validTo.digits]
         : i \in S}

Range(seq) == {seq[i] : i \in 1..Len(seq)}

ProjectedOwner(address) ==
    IF address \in DOMAIN identityRepository
           /\ identityRepository[address].controller # Null
    THEN identityRepository[address].controller
    ELSE address

ProjectedDelegates(address) ==
    {[delegateType |-> d.delegateType, delegateAddress |-> d.delegateAddress,
      validTo |-> d.validTo] : d \in {r \in Range(delegateRepository) : r.identity = address}}

ProjectedAttributes(address) ==
    {[name |-> a.name, value |-> a.value, validTo |-> a.validTo]
        : a \in {r \in Range(attributeRepository) : r.identity = address}}

ReplayedOwner(address) ==
    LET st == historicalState(<<address>>, head)
    IN  IF st.owner = Null THEN address ELSE st.owner

C2_OwnerAgrees ==
    \A address \in LowerAddresses : ReplayedOwner(address) = ProjectedOwner(address)

C2_DelegatesAgree ==
    \A address \in LowerAddresses :
        Range(historicalState(<<address>>, head).delegates) = ProjectedDelegates(address)

C2_AttributesAgree ==
    \A address \in LowerAddresses :
        Range(historicalState(<<address>>, head).attributes) = ProjectedAttributes(address)

\* C2: after events were ingested one at a time, for every identity the state
\* replayed from the event log at the head block equals the live projection:
\* the same owner, the same validTo for every delegate key, the same value
\* and validTo for every attribute name.
C2_ReplayEqualsProjection ==
    /\ C2_OwnerAgrees
    /\ C2_DelegatesAgree
    /\ C2_AttributesAgree

\* ------------------------------------------------- ownership through time
NextOwner ==
    \/ Tick
    \/ MineBlock(0)
    \/ \E identity \in {"0xAA", "0xBB"}, actor \in Addresses, newOwner \in {"0xBB", "0xDD"} :
          changeOwner(identity, actor, newOwner)
    \/ OnOwnerChanged
    \/ \E did \in Dids, maxBlock \in Blocks : GetOwnerAtBlock(did, maxBlock)
    \/ \E did \in Dids, timestamp \in PastDates : GetOwnerAtTime(did, timestamp)

SpecOwner == Init /\ [][NextOwner]_vars

\* ----------------------------------------------------- signers through time
NextSigner ==
    \/ Tick
    \/ MineBlock(0)
    \/ \E actor \in Addresses : changeOwner("0xAA", actor, "0xBB")
    \/ \E actor \in Addresses, delegateType \in {SigAuth, VeriKey}, validity \in 1..MaxValidity :
          addDelegate("0xAA", actor, delegateType, "0xDD", validity)
    \/ \E actor \in Addresses : revokeDelegate("0xAA", actor, SigAuth, "0xDD")
    \/ OnOwnerChanged
    \/ OnDelegateChanged
    \/ \E signerAddress \in {"0xAA", "0xDD"}, timestamp \in PastDates :
          WasValidSignerAtTime(<<"did", "ethr", "0xAA">>, signerAddress, timestamp)

SpecSigner == Init /\ [][NextSigner]_vars

\* ------------------------------------------------------- claims: block index
\* the greatest block whose timestamp is at or before the Date (milliseconds)
BlockAtOrBefore(timestamp) ==
    CHOOSE b \in 0..head :
        /\ blockTs[b + 1] * MsPerSecond <= timestamp
        /\ \A c \in 0..head : blockTs[c + 1] * MsPerSecond <= timestamp => c <= b

WithinChain(timestamp) ==
    /\ blockTs[1] * MsPerSecond <= timestamp
    /\ timestamp <= blockTs[Len(blockTs)] * MsPerSecond

\* C5: for a timestamp t between the genesis and the head timestamps,
\* getBlockByTimestamp(t) is the greatest block whose timestamp is <= t, and
\* the block it returns never has a timestamp greater than t.
C5_BlockAtOrBefore ==
    (response.op = "getBlockByTimestamp" /\ WithinChain(response.timestamp))
        => /\ response.result = BlockAtOrBefore(response.timestamp)
           /\ blockTs[response.result + 1] * MsPerSecond <= response.timestamp

\* ------------------------------------------------ claims: owner and signer
OwnerOrSelf(owner, address) == IF owner = Null THEN address ELSE owner

TimeOfEvent(i) == blockTs[eventRepository[i].blockNumber + 1] * MsPerSecond

\* two OwnerChanged events of the identity with no other between them
ConsecutiveOwnerEvents(address, i, j) ==
    LET S == OfKind(EventsOf(address, head), "DIDOwnerChanged")
    IN  /\ i \in S
        /\ j \in S
        /\ LedgerBefore(i, j)
        /\ \A k \in S \ {i, j} : ~(LedgerBefore(i, k) /\ LedgerBefore(k, j))

\* the first half of C6: getOwnerAtBlock(X, P) is the owner set by the last
\* OwnerChanged event of X at a position <= P, or X itself.
C6_OwnerAtBlock ==
    response.op = "getOwnerAtBlock" =>
        LET address == toLowerCase(response.did[Len(response.did)])
        IN  response.result =
                OwnerOrSelf(FoldOwner(address, response.blockNumber), address)

\* C6: getOwnerAtBlock(X, P) is the owner set by the last OwnerChanged event
\* of X at a position <= P, or X itself; and getOwnerAtTime(X, t), for t
\* strictly between the block timestamps of two consecutive OwnerChanged
\* events of X, is the owner set by the earlier of the two.
C6_OwnerAt ==
    /\ C6_OwnerAtBlock
    /\ response.op = "getOwnerAtTime" =>
           LET address == toLowerCase(response.did[Len(response.did)])
           IN  \A i, j \in 1..Len(eventRepository) :
                   (/\ ConsecutiveOwnerEvents(address, i, j)
                    /\ TimeOfEvent(i) < response.timestamp
                    /\ response.timestamp < TimeOfEvent(j))
                       => response.result = toLowerCase(eventRepository[i].args.owner)

\* the state of the identity replayed up to the block at or before the Date:
\* whether the address is its owner, or a delegate of any type still valid then
HeldAuthorityAt(address, signer, timestamp) ==
    LET maxBlock == IF blockTs[1] * MsPerSecond <= timestamp
                    THEN BlockAtOrBefore(timestamp) ELSE -1
    IN  \/ OwnerOrSelf(FoldOwner(address, maxBlock), address) = signer
        \/ \E d \in FoldDelegates(address, maxBlock) :
              /\ d.delegateAddress = signer
              /\ d.validTo * MsPerSecond > timestamp

\* C4: wasValidSignerAtTime(X, A, t) is true exactly when, in the state of X
\* replayed up to the block at or before t, A is the owner of X or a delegate
\* of X, of any type, whose validTo is greater than t.
C4_ValidSignerAtTime ==
    response.op = "wasValidSignerAtTime" =>
        (response.result <=>
            HeldAuthorityAt(toLowerCase(response.did[Len(response.did)]),
                            toLowerCase(response.signer), response.timestamp))

\* ------------------------------------------------ requests for credentials
SubjectDid == didOf("0xbb")
ClaimsSigned == <<[key |-> "degree", value |-> "BSc"]>>
ClaimsForged == <<[key |-> "degree", value |-> "PhD"]>>

\* the request the frontend sends: the fields and the signature its wallet
\* made over createCredentialMessage of them
IssueRequest(issuerAddress, signer, issuanceDate, expirationDate) ==
    LET message == createCredentialMessage(
                       [issuerDid |-> didOf(toLowerCase(issuerAddress)),
                        subjectDid |-> SubjectDid,
                        type |-> <<"DegreeCredential">>,
                        claims |-> ClaimsSigned,
                        issuanceDate |-> issuanceDate,
                        expirationDate |-> expirationDate])
    IN  [issuerAddress |-> issuerAddress,
         subjectDid |-> SubjectDid,
         type |-> <<"DegreeCredential">>,
         claims |-> ClaimsSigned,
         issuanceDate |-> issuanceDate,
         expirationDate |-> expirationDate,
         signature |-> Signature(signer, message)]

\* the wall clock of the client, read as an ISO string
ClockString == Iso(now * MsPerSecond + HalfSecond)

\* the dates of the requests: issued half a second after the genesis block,
\* expiring one second later
IssuedAt == Iso(blockTs[1] * MsPerSecond + HalfSecond)
ExpiresAt == Iso((blockTs[1] + 1) * MsPerSecond + HalfSecond)

\* the ids of the credentials that can be stored, and one that cannot
StoredIds == {Urn(n) : n \in 1..MaxCredentials}
CredentialIds == StoredIds \cup {Urn(MaxCredentials + 1)}

\* the proof a delegate's wallet would make over the stored fields of a row
DelegateProof(row, delegate) ==
    LET credential == credentialRepository[row]
    IN  [credential.proof EXCEPT !.proofValue =
            Signature(delegate,
                credentialPayload(credential.type, credential.issuer,
                    credential.issuanceDate,
                    orUndefined(credential.expirationDate),
                    credential.subject, credential.claims))]

\* ----------------------------------------- issue, alter, revoke and verify
NextVerify ==
    \/ MineBlock(1)
    \/ \E signer \in {"0xAA", "0xDD"}, expirationDate \in {Undefined, ExpiresAt} :
          Issue(IssueRequest("0xAA", signer, IssuedAt, expirationDate))
    \/ \E row \in 1..MaxCredentials :
          \/ Alter(row, "claims", ClaimsForged)
          \/ Alter(row, "expirationDate", Iso((EndTime + 1) * MsPerSecond))
    \/ \E credentialId \in StoredIds :
          \E signature \in {Signature("0xAA", revokeMessage(credentialId)),
                            Signature("0xDD", revokeMessage(credentialId)),
                            Malformed} :
              Revoke(credentialId, "0xAA", signature)
    \/ \E credentialId \in CredentialIds \cup {Bare(1)}, rpcAvailable \in BOOLEAN :
          Verify(credentialId, rpcAvailable)

SpecVerify == Init /\ [][NextVerify]_vars

\* ------------------------------- verify while the issuer changes its owner
NextChecks ==
    \/ MineBlock(1)
    \/ changeOwner("0xAA", "0xAA", "0xBB")
    \/ OnOwnerChanged
    \/ \E expirationDate \in {Undefined, ExpiresAt} :
          Issue(IssueRequest("0xAA", "0xAA", IssuedAt, expirationDate))
    \/ \E row \in 1..MaxCredentials :
          \/ Alter(row, "claims", ClaimsForged)
          \/ Alter(row, "issuanceDate", NotADate)
    \/ \E credentialId \in StoredIds :
          Revoke(credentialId, "0xAA",
                 Signature("0xAA", revokeMessage(credentialId)))
    \/ \E credentialId \in CredentialIds, rpcAvailable \in BOOLEAN :
          Verify(credentialId, rpcAvailable)

SpecChecks == Init /\ [][NextChecks]_vars

\* ------------------------------------- authority at the time of issuance
NextAuthority ==
    \/ Tick
    \/ MineBlock(0)
    \/ \E actor \in Addresses, newOwner \in {"0xAA", "0xBB"} :
          changeOwner("0xAA", actor, newOwner)
    \/ \E actor \in Addresses : addDelegate("0xAA", actor, SigAuth, "0xDD", MaxValidity)
    \/ OnOwnerChanged
    \/ OnDelegateChanged
    \/ \E signer \in {"0xAA", "0xDD"} :
          Issue(IssueRequest("0xAA", signer, ClockString, Undefined))
    \/ \E row \in 1..MaxCredentials :
          /\ row <= Len(credentialRepository)
          /\ Alter(row, "proof", DelegateProof(row, "0xDD"))
    \/ \E rpcAvailable \in BOOLEAN : Verify(Urn(1), rpcAvailable)

SpecAuthority == Init /\ [][NextAuthority]_vars

\* ------------------------------------------------------ claims: credentials
\* the row a verify response is about, when there is one
RowsOf(credentialId) == findCredential(uuidOf(credentialId))
RowOf(credentialId) == credentialRepository[Min(RowsOf(credentialId))]
IssuerAddressOf(credential) == toLowerCase(credential.issuer[Len(credential.issuer)])

\* C3: whenever verify returns valid = true and the historical lookup did not
\* fail, the recovered address was, at the issuance time, the owner of the
\* issuer identity or a delegate of it whose validTo is greater than the
\* issuance timestamp.
C3_ValidImpliesAuthority ==
    (/\ response.op = "verify"
     /\ response.rpcAvailable
     /\ response.result.valid)
        => HeldAuthorityAt(IssuerAddressOf(RowOf(response.credentialId)),
                           toLowerCase(response.result.details.recoveredAddress),
                           dateOf(RowOf(response.credentialId).issuanceDate))

\* the signature was made by a key other than the issuer's, over the
\* canonical payload of the fields
SignedByOther(signature, message, issuerAddress) ==
    /\ "signer" \in DOMAIN signature
    /\ signature.message = message
    /\ toLowerCase(signature.signer) # toLowerCase(issuerAddress)

\* the signer is a delegate of the identity in the state replayed up to the
\* block at or before the Date, with a validTo after the Date
DelegateAt(address, signer, timestamp) ==
    LET maxBlock == IF blockTs[1] * MsPerSecond <= timestamp
                    THEN BlockAtOrBefore(timestamp) ELSE -1
    IN  \E d \in FoldDelegates(address, maxBlock) :
            /\ d.delegateAddress = signer
            /\ d.validTo * MsPerSecond > timestamp

\* C7: a credential of identity X signed by a delegate D of X whose validTo is
\* greater than the issuance timestamp is issued and, while neither expired nor
\* revoked, verifies as valid; one signed by D after D's validTo verifies as
\* invalid with a false authority check.
C7_DelegateSignedIsValid ==
    /\ (/\ response.op = "issue"
        /\ SignedByOther(response.dto.signature,
               credentialPayload(<<"VerifiableCredential">> \o response.dto.type,
                   didOf(toLowerCase(response.dto.issuerAddress)),
                   response.dto.issuanceDate, response.dto.expirationDate,
                   response.dto.subjectDid, response.dto.claims),
               response.dto.issuerAddress)
        /\ DelegateAt(toLowerCase(response.dto.issuerAddress),
                      toLowerCase(response.dto.signature.signer),
                      dateOf(response.dto.issuanceDate)))
           => ~response.threw
    /\ (/\ response.op = "verify"
        /\ response.rpcAvailable
        /\ RowsOf(response.credentialId) # {})
           => LET credential == RowOf(response.credentialId)
                  signature == credential.proof.proofValue
                  signedByDelegate ==
                      SignedByOther(signature,
                          credentialPayload(credential.type, credential.issuer,
                              credential.issuanceDate,
                              orUndefined(credential.expirationDate),
                              credential.subject, credential.claims),
                          IssuerAddressOf(credential))
                  authority ==
                      HeldAuthorityAt(IssuerAddressOf(credential),
                                      toLowerCase(signature.signer),
                                      dateOf(credential.issuanceDate))
              IN  /\ (/\ signedByDelegate
                      /\ DelegateAt(IssuerAddressOf(credential),
                                    toLowerCase(signature.signer),
                                    dateOf(credential.issuanceDate))
                      /\ response.result.checks.notExpired
                      /\ response.result.checks.notRevoked)
                         => response.result.valid
                  /\ (signedByDelegate /\ ~authority)
                         => /\ ~response.result.valid
                            /\ ~response.result.checks.signerValidAtIssuance

\* the expirationDate member of a signed message, as the column holds it
ExpirationOf(message) ==
    IF "expirationDate" \in DOMAIN message THEN message.expirationDate
    ELSE NullString

\* a field of the stored row is not what the signature was made over
StoredDiffersFromSigned(credential) ==
    LET message == credential.proof.proofValue.message
    IN  \/ message.type # credential.type
        \/ message.issuer # credential.issuer
        \/ message.issuanceDate # credential.issuanceDate
        \/ ExpirationOf(message) # credential.expirationDate
        \/ message.credentialSubject #
               credentialSubject(credential.subject, credential.claims)

\* C8: if the stored claims, or any other field of the signing payload, differ
\* from what was signed, verify reports checks.signature = false and
\* valid = false, whatever the other checks are.
C8_TamperedFailsSignature ==
    (/\ response.op = "verify"
     /\ RowsOf(response.credentialId) # {}
     /\ StoredDiffersFromSigned(RowOf(response.credentialId)))
        => /\ ~response.result.checks.signature
           /\ ~response.result.valid

\* verify has answered about a row with forged claims that is neither expired
\* nor revoked
C8_Witness ==
    /\ response.op = "verify"
    /\ RowsOf(response.credentialId) # {}
    /\ RowOf(response.credentialId).claims = ClaimsForged
    /\ response.result.checks.notExpired
    /\ response.result.checks.notRevoked
    /\ ~response.result.checks.signature

\* C9: a successful revoke of a credential that verified as valid leaves it
\* with notRevoked = false and valid = false, while signature and
\* signerValidAtIssuance stay true.
C9_RevokedStaysSigned ==
    [][(response'.op = "revoke" /\ ~response'.threw)
          => \A credentialId \in CredentialIds, rpcAvailable \in BOOLEAN :
                LET after == verify(credentialId, rpcAvailable)'
                IN  (/\ uuidOf(response'.credentialId) = uuidOf(credentialId)
                     /\ verify(credentialId, rpcAvailable).valid)
                        => /\ ~after.checks.notRevoked
                           /\ ~after.valid
                           /\ after.checks.signature
                           /\ after.checks.signerValidAtIssuance]_vars

\* a revoke has succeeded on a credential whose signature and authority checks
\* pass, and verify has not been asked since
C9_Witness ==
    /\ response.op = "revoke"
    /\ ~response.threw
    /\ RowOf(response.credentialId).status = "revoked"
    /\ LET after == verify(response.credentialId, TRUE)
       IN  /\ after.checks.signature
           /\ after.checks.signerValidAtIssuance
           /\ after.checks.notExpired
           /\ ~after.valid

CheckNames == {"signature", "signerValidAtIssuance", "notExpired", "notRevoked"}

\* C10: every result of verify holds the four booleans, valid is true exactly
\* when all four are, and an unknown credential id gives valid = false with an
\* error value, not an exception.
C10_FourChecksAlways ==
    response.op = "verify" =>
        /\ ~response.threw
        /\ DOMAIN response.result.checks = CheckNames
        /\ \A name \in CheckNames : response.result.checks[name] \in BOOLEAN
        /\ response.result.valid =
               (\A name \in CheckNames : response.result.checks[name])
        /\ RowsOf(response.credentialId) = {}
               => /\ ~response.result.valid
                  /\ "error" \in DOMAIN response.result

\* verify has answered about a stored credential whose only failing check is
\* the expiry
C10_Witness ==
    /\ response.op = "verify"
    /\ RowsOf(response.credentialId) # {}
    /\ response.result.checks.signature
    /\ response.result.checks.signerValidAtIssuance
    /\ response.result.checks.notRevoked
    /\ ~response.result.checks.notExpired
    /\ ~response.result.valid

\* --------------------------------- verify while the provider may be failing
NextFallback ==
    \/ MineBlock(1)
    \/ changeOwner("0xAA", "0xAA", "0xBB")
    \/ OnOwnerChanged
    \/ \E expirationDate \in {Undefined, ExpiresAt} :
          Issue(IssueRequest("0xAA", "0xAA", IssuedAt, expirationDate))
    \/ \E credentialId \in StoredIds :
          Revoke(credentialId, "0xAA",
                 Signature("0xAA", revokeMessage(credentialId)))
    \/ \E credentialId \in CredentialIds, ownerLookup, signerLookup \in BOOLEAN :
          VerifyWith(credentialId, ownerLookup, signerLookup)

SpecFallback == Init /\ [][NextFallback]_vars

\* ---------------------------------------------------------- claims: fallback
\* the verify response came out of the catch block of the historical check
FellBack ==
    /\ response.op = "verify"
    /\ "details" \in DOMAIN response.result
    /\ response.result.details.recoveredAddress # ""
    /\ ~(response.ownerLookup /\ response.signerLookup)

\* C11: a verify result produced by the fallback of the authority check is
\* distinguishable from the result a full temporal check produces: it is never
\* equal to the result of the same request served with a working provider.
C11_FallbackIsFlagged ==
    FellBack => response.result # verifyWith(response.credentialId, TRUE, TRUE)

\* ------------------------------------------- live delivery and backfill
NextSync ==
    \/ MineBlock(1)
    \/ \E actor \in Addresses : changeOwner("0xAA", actor, "0xBB")
    \/ \E actor \in Addresses : addDelegate("0xAA", actor, SigAuth, "0xDD", MaxValidity)
    \/ \E actor \in Addresses :
          setAttribute("0xAA", actor, ServiceName, UrlBytes, MaxValidity)
    \/ Ingest
    \/ \E fromBlock \in 0..MaxHead : SyncFromBlock(fromBlock)
    \/ SyncNext

SpecSync == Init /\ [][NextSync]_vars

\* ---------------------------------------------------- claims: re-delivery
\* two rows of the event log are entries of the same ledger event
SameEvent(a, b) ==
    /\ a.transactionHash = b.transactionHash
    /\ a.eventName = b.eventName
    /\ a.blockNumber = b.blockNumber

\* C12: however often a ledger event is delivered, live or by syncFromBlock,
\* the event log holds at most one entry per (transaction hash, event kind,
\* position).
C12_OneEntryPerEvent ==
    \A i, j \in 1..Len(eventRepository) :
        SameEvent(eventRepository[i], eventRepository[j]) => i = j

\* the event log has grown by a second entry of the event handled last
AppliedAgain ==
    /\ Len(eventRepository) > 0
    /\ Len(eventRepository') = Len(eventRepository) + 1
    /\ SameEvent(eventRepository'[Len(eventRepository')],
                 eventRepository[Len(eventRepository)])

\* C13: a handler that applies the event that was applied last a second time
\* leaves the Identity, Delegate and Attribute projections as they were: no
\* second row for a key, no change of controller, value or validTo.
C13_TwiceIsOnce ==
    [][AppliedAgain =>
          UNCHANGED <<identityRepository, delegateRepository, attributeRepository>>]_vars

\* an event of each kind has been applied twice in a row
C13_Witness ==
    /\ Len(eventRepository) >= 4
    /\ SameEvent(eventRepository[2], eventRepository[1])
    /\ SameEvent(eventRepository[4], eventRepository[3])
    /\ eventRepository[1].eventName = "DIDDelegateChanged"
    /\ eventRepository[3].eventName # "DIDDelegateChanged"
    /\ Len(delegateRepository) = 1

\* ------------------------------------------ live handlers that overlap
NextConcurrent ==
    \/ MineBlock(1)
    \/ \E actor \in Addresses, newOwner \in {"0xBB", "0xDD"} :
          changeOwner("0xAA", actor, newOwner)
    \/ \E actor \in Addresses, validity \in 1..MaxValidity :
          addDelegate("0xAA", actor, SigAuth, "0xDD", validity)
    \/ Dispatch
    \/ \E h \in inflight : SaveEvent(h)
    \/ \E h \in inflight : FindRows(h)
    \/ \E h \in inflight : SaveRow(h)

SpecConcurrent == Init /\ [][NextConcurrent]_vars

\* --------------------------------------------------- claims: concurrency
\* every log of the ledger was dispatched and every handler has ended
Quiescent == delivered = Len(ledger) /\ inflight = {}

\* C14: whatever the interleaving of the handlers of one identity's events,
\* once they have all ended the projection is the one that applying the events
\* one after another in ledger order gives: the owner and every delegate's
\* validTo are those of the last event, no key has two rows, and the event
\* log is in ledger order.
C14_InterleavingIsSerial ==
    Quiescent =>
        /\ \A address \in LowerAddresses :
              /\ ProjectedOwner(address) =
                     (IF FoldOwner(address, head) = Null THEN address
                      ELSE FoldOwner(address, head))
              /\ ProjectedDelegates(address) = FoldDelegates(address, head)
        /\ \A i, j \in 1..Len(delegateRepository) :
              (/\ delegateRepository[i].identity = delegateRepository[j].identity
               /\ delegateRepository[i].delegateType = delegateRepository[j].delegateType
               /\ delegateRepository[i].delegateAddress = delegateRepository[j].delegateAddress)
                  => i = j
        /\ \A i, j \in 1..Len(eventRepository) :
              i < j => eventRepository[i].transactionHash < eventRepository[j].transactionHash

\* ------------------------------------------------ handlers that can fail
NextFaults ==
    \/ MineBlock(1)
    \/ \E actor \in Addresses : changeOwner("0xAA", actor, "0xBB")
    \/ \E actor \in Addresses : addDelegate("0xAA", actor, SigAuth, "0xDD", MaxValidity)
    \/ OnOwnerChanged
    \/ OnDelegateChanged
    \/ \E failAt \in FailPoints : OnFailure(failAt)
    \/ SyncFromBlock(0)
    \/ SyncNext
    \/ \E failAt \in FailPoints : SyncFailure(failAt)

SpecFaults == Init /\ [][NextFaults]_vars

\* ------------------------------------------------------- claims: failures
\* the logs the listener was given that have no entry in the event log
Unstored == {k \in 1..delivered :
                \A i \in 1..Len(eventRepository) : eventRepository[i].transactionHash # k}

\* C15: a handler that fails is caught and logged and the failure does not
\* propagate: every log a syncFromBlock found is handled or still waiting to
\* be, no handler call of the loop ends in an exception, and every log given
\* to the live listener is stored unless its own handling was logged as failed.
C15_FailureIsContained ==
    /\ sync.found = sync.handled \cup Range(sync.queue)
    /\ response.op = "handled" => ~response.threw
    /\ Cardinality(Unstored) <= logged

\* a syncFromBlock has handled a log after the handler of an earlier one failed
C15_Witness ==
    /\ response.op = "handled"
    /\ ~response.caught
    /\ logged > 0
    /\ delivered = 0
    /\ sync.queue = <<>>
    /\ Cardinality(sync.handled) >= 2
    /\ Len(eventRepository) < Cardinality(sync.handled)

\* ----------------------------------------------------------- documents
NextDocument ==
    \/ Tick
    \/ MineBlock(0)
    \/ \E actor \in Addresses : changeOwner("0xAA", actor, "0xBB")
    \/ \E actor \in Addresses, delegateType \in {SigAuth, VeriKey, Enc} :
          addDelegate("0xAA", actor, delegateType, "0xDD", 1)
    \/ \E actor \in Addresses, name \in {ServiceName, PubKeyName} :
          setAttribute("0xAA", actor, name, UrlBytes, 1)
    \/ Ingest
    \/ \E did \in Dids : Resolve(did)
    \/ \E maxBlock \in 0..head : ResolveAtBlock(<<"did", "ethr", "0xAA">>, maxBlock)

SpecDocument == Init /\ [][NextDocument]_vars

\* ---------------------------------------------------- claims: documents
\* the verification methods of one kind ("delegate", "key") of a document
MethodsOfKind(doc, kind) ==
    SelectSeq(doc.verificationMethod, LAMBDA vm : vm.id.kind = kind)

ServicesOf(doc) == IF "service" \in DOMAIN doc THEN doc.service ELSE <<>>

\* how often x occurs in seq
Count(seq, x) == Cardinality({i \in 1..Len(seq) : seq[i] = x})

\* C16: the document of resolveAtBlock(X, P) contains a delegate or attribute
\* entry of the state replayed at P exactly when the entry's validTo is
\* greater than the timestamp of block P, whatever the time of the request.
C16_FilteredAtBlockTime ==
    (response.op = "resolveAtBlock" /\ response.blockNumber <= head) =>
        LET timestamp == blockTs[response.blockNumber + 1]
            state == response.historicalState
            doc == response.document
            expectedDelegates ==
                SelectSeq(state.delegates, LAMBDA d : d.validTo > timestamp)
            expectedAttributes ==
                SelectSeq(state.attributes, LAMBDA a : a.validTo > timestamp)
            delegateMethods == MethodsOfKind(doc, "delegate")
        IN  /\ Len(delegateMethods) = Len(expectedDelegates)
            /\ \A i \in 1..Len(expectedDelegates) :
                  delegateMethods[i].blockchainAccountId[3] =
                      expectedDelegates[i].delegateAddress
            /\ Len(ServicesOf(doc)) =
                  Len(SelectSeq(expectedAttributes, LAMBDA a : startsWith(a.name, "svc")))
            /\ Len(MethodsOfKind(doc, "key")) =
                  Len(SelectSeq(expectedAttributes, LAMBDA a : startsWith(a.name, "pub")))

\* the inputs resolve hands to buildDidDocument for an address, and the result
InputsOf(address) ==
    [controller |-> IF address \in DOMAIN identityRepository
                    THEN identityRepository[address].controller ELSE Null,
     delegates |-> delegatesOf(address),
     attributes |-> attributesOf(address)]

BuiltFor(address) ==
    buildDidDocument(address, InputsOf(address).controller,
                     InputsOf(address).delegates, InputsOf(address).attributes)

\* C17: buildDidDocument is a function of its inputs only: two calls with the
\* same address, owner, delegates and attributes return the same document,
\* whenever they are made.
C17_DocumentOfInputsOnly ==
    [][\A address \in LowerAddresses :
          InputsOf(address)' = InputsOf(address)
              => BuiltFor(address)' = BuiltFor(address)]_vars

\* C18: resolve of a well-formed identifier without Identity row and without
\* events returns a document: its id is the identity's DID, its only
\* verification method is #controller, controlled by the identity itself, and
\* it has no controller and no service member.
C18_UnknownIsSelfOwned ==
    LET address == extractAddress(response.did)
        doc == response.document
    IN  (/\ response.op = "resolve"
         /\ address \notin DOMAIN identityRepository
         /\ EventsOf(address, head) = {})
            => /\ DOMAIN doc = {"context", "id", "verificationMethod",
                                "authentication", "assertionMethod"}
               /\ doc.id = didOf(address)
               /\ Len(doc.verificationMethod) = 1
               /\ doc.verificationMethod[1].id = fragment(doc.id, "controller", 0)
               /\ doc.verificationMethod[1].controller = doc.id

\* an unknown identity is resolved while another identity is known
C18_Witness ==
    /\ response.op = "resolve"
    /\ extractAddress(response.did) \notin DOMAIN identityRepository
    /\ DOMAIN identityRepository # {}

\* the owner and the delegates a document in a response was built from
OwnerBuiltFrom ==
    IF response.op = "resolveAtBlock" THEN response.historicalState.owner
    ELSE InputsOf(extractAddress(response.did)).controller

DelegatesBuiltFrom ==
    IF response.op = "resolveAtBlock" THEN response.historicalState.delegates
    ELSE InputsOf(extractAddress(response.did)).delegates

\* C19: in every built document the first verification method is #controller,
\* bound to the owner or to the identity itself, and is referenced by
\* authentication and by assertionMethod; each valid delegate yields exactly
\* one verification method, listed in authentication exactly when its type is
\* sigAuth and in assertionMethod exactly when its type is veriKey.
C19_MethodsAndRelationships ==
    response.op \in {"resolve", "resolveAtBlock"} =>
        LET address == extractAddress(response.did)
            did == didOf(address)
            doc == response.document
            methods == doc.verificationMethod
            controllerId == fragment(did, "controller", 0)
            valid == SelectSeq(DelegatesBuiltFrom, LAMBDA d : d.validTo > now)
            delegateMethods == MethodsOfKind(doc, "delegate")
        IN  /\ methods[1].id = controllerId
            /\ methods[1].blockchainAccountId = <<"eip155", "1", address>>
            /\ methods[1].controller =
                  (IF OwnerBuiltFrom = Null THEN did ELSE didOf(OwnerBuiltFrom))
            /\ Count(doc.authentication, controllerId) = 1
            /\ Count(doc.assertionMethod, controllerId) = 1
            /\ Len(delegateMethods) = Len(valid)
            /\ \A i \in 1..Len(valid) :
                  LET id == delegateMethods[i].id
                  IN  /\ delegateMethods[i].blockchainAccountId[3] = valid[i].delegateAddress
                      /\ Count([k \in 1..Len(methods) |-> methods[k].id], id) = 1
                      /\ Count(doc.authentication, id) =
                            (IF valid[i].delegateType = <<"sigAuth">> THEN 1 ELSE 0)
                      /\ Count(doc.assertionMethod, id) =
                            (IF valid[i].delegateType = <<"veriKey">> THEN 1 ELSE 0)

\* a document with two delegate methods, one of them in no relationship
C19_Witness ==
    /\ response.op = "resolve"
    /\ Len(MethodsOfKind(response.document, "delegate")) = 2
    /\ \E i \in 1..2 :
          LET id == MethodsOfKind(response.document, "delegate")[i].id
          IN  /\ Count(response.document.authentication, id) = 0
              /\ Count(response.document.assertionMethod, id) = 0
    /\ Len(response.document.authentication)
          + Len(response.document.assertionMethod) = 3

Identities == {"0xAA", "0xBB"}

NextRegistry ==
    \/ \E dt \in 1..2 : MineBlock(dt)
    \/ \E identity \in Identities, actor \in Addresses, newOwner \in Accounts :
          changeOwner(identity, actor, newOwner)
    \/ \E identity \in Identities, actor \in Addresses, validity \in 0..1 :
          addDelegate(identity, actor, SigAuth, "0xDD", validity)
    \/ \E identity \in Identities, actor \in Addresses :
          revokeDelegate(identity, actor, SigAuth, "0xDD")
    \/ \E identity \in Identities, actor \in Addresses :
          setAttribute(identity, actor, ServiceName, UrlBytes, 1)
    \/ \E identity \in Identities, actor \in Addresses :
          revokeAttribute(identity, actor, ServiceName, UrlBytes)
    \/ \E identity \in Identities, actor \in Addresses : bad_actor(identity, actor)

SpecRegistry == Init /\ [][NextRegistry]_vars

\* ------------------------------------------------- claims: the registry
\* the step is a public mutating call on identity sent by actor, whatever
\* comes of it
Called(identity, actor) ==
    \/ \E newOwner \in Accounts : changeOwner(identity, actor, newOwner)
    \/ \E validity \in 0..1 :
          addDelegate(identity, actor, SigAuth, "0xDD", validity)
    \/ revokeDelegate(identity, actor, SigAuth, "0xDD")
    \/ setAttribute(identity, actor, ServiceName, UrlBytes, 1)
    \/ revokeAttribute(identity, actor, ServiceName, UrlBytes)
    \/ bad_actor(identity, actor)

\* C21: a mutating call made by an actor that is not identityOwner(identity)
\* at that moment reverts: owners, delegates, changed and nonce stay as they
\* were and no event is emitted; this includes the identity's own address
\* once ownership has been transferred.
C21_NonOwnerReverts ==
    [][\A identity \in Identities, actor \in Addresses :
          (actor # identityOwner(identity) /\ Called(identity, actor))
          => /\ response'.op = "revert"
             /\ UNCHANGED <<owners, delegates, changed, nonce, ledger>>]_vars

\* the former owner, the identity's own address, was turned away
C21_Witness ==
    /\ owners["0xAA"] = "0xBB"
    /\ response.op = "revert"
    /\ response.identity = "0xAA"
    /\ response.actor = "0xAA"

\* the ledger positions of the events of one kind that name the identity
Emitted(identity, eventName) ==
    {k \in 1..Len(ledger) : /\ ledger[k].eventName = eventName
                            /\ ledger[k].args.identity = identity}

Max(S) == CHOOSE x \in S : \A y \in S : x >= y

\* the last DIDDelegateChanged of the key, as a set of at most one event
LastDelegateChanged(identity, delegateType, delegate) ==
    LET K == {k \in Emitted(identity, "DIDDelegateChanged") :
                 /\ ledger[k].args.delegateType = delegateType
                 /\ ledger[k].args.delegate = delegate}
    IN  IF K = {} THEN {} ELSE {ledger[Max(K)]}

\* C23: validDelegate(identity, type, delegate) is true exactly while the
\* validity written last is greater than the current block timestamp: true
\* right after an addDelegate with validity > 0, false once the block
\* timestamp has passed grant time + validity, false right after a
\* revokeDelegate, in the block of the revocation already.
C23_ValidWhileUnexpired ==
    \A identity \in Identities :
        LET last == LastDelegateChanged(identity, SigAuth, "0xDD")
            valid == validDelegate(identity, SigAuth, "0xDD")
        IN  /\ valid <=> \E e \in last : e.args.validTo > blockTimestamp
            /\ \A e \in last :
                  LET grantTime == blockTs[e.blockNumber + 1]
                  IN  /\ (e.blockNumber = blockNumber /\ e.args.validTo > grantTime)
                         => valid
                      /\ blockTimestamp > e.args.validTo => ~valid
                      /\ e.args.validTo = grantTime => ~valid

\* the delegate was granted, and revoked in a later block, which is the head
C23_Witness ==
    /\ Len(ledger) = 2
    /\ ledger[1].eventName = "DIDDelegateChanged"
    /\ ledger[1].args.validTo > blockTs[ledger[1].blockNumber + 1]
    /\ ledger[1].args.validTo > blockTimestamp
    /\ ledger[2].eventName = "DIDDelegateChanged"
    /\ ledger[2].args.identity = ledger[1].args.identity
    /\ ledger[2].blockNumber = blockNumber
    /\ ledger[2].args.validTo = blockTimestamp
    /\ ~validDelegate(ledger[1].args.identity, SigAuth, "0xDD")

\* C24: identityOwner(identity) is the identity itself until a changeOwner
\* on it goes through; after a changeOwner to a newOwner other than the zero
\* address it is newOwner, and newOwner can then make every owner-only call,
\* a further transfer of ownership included.
C24_OwnerIsLastTransfer ==
    \A identity \in Identities :
        LET K == Emitted(identity, "DIDOwnerChanged")
            newOwner == ledger[Max(K)].args.owner
        IN  /\ K = {} => identityOwner(identity) = identity
            /\ (K # {} /\ newOwner # ZeroAddress)
               => /\ identityOwner(identity) = newOwner
                  /\ CanTransact
                     => /\ ENABLED changeOwner(identity, newOwner, "0xDD")
                        /\ ENABLED addDelegate(identity, newOwner, SigAuth, "0xDD", 1)
                        /\ ENABLED revokeDelegate(identity, newOwner, SigAuth, "0xDD")
                        /\ ENABLED setAttribute(identity, newOwner, ServiceName,
                                                UrlBytes, 1)
                        /\ ENABLED revokeAttribute(identity, newOwner, ServiceName,
                                                   UrlBytes)

\* ownership went from the identity to 0xBB, and 0xBB passed it on to 0xDD
C24_Witness ==
    /\ Len(ledger) = 2
    /\ ledger[1].eventName = "DIDOwnerChanged"
    /\ ledger[1].args.identity = "0xAA"
    /\ ledger[1].args.owner = "0xBB"
    /\ ledger[2].eventName = "DIDOwnerChanged"
    /\ ledger[2].args.identity = "0xAA"
    /\ ledger[2].args.owner = "0xDD"
    /\ identityOwner("0xAA") = "0xDD"

\* the delegate entries of one identity
delegatesUnder(map, identity) ==
    [k \in {key \in DOMAIN map : key[1] = identity} |-> map[k]]

\* C25: a call that names identity A leaves the owner, every delegate
\* validity and the changed block of every other identity as they were.
C25_OtherIdentitiesUntouched ==
    [][\A A \in Identities :
          (\E actor \in Addresses : Called(A, actor))
          => \A B \in Accounts \ {A} :
                /\ owners'[B] = owners[B]
                /\ changed'[B] = changed[B]
                /\ delegatesUnder(delegates', B) = delegatesUnder(delegates, B)]_vars

\* 0xBB got an owner and a changed block, then a call on 0xAA went through in
\* a later block
C25_Witness ==
    /\ Len(ledger) = 2
    /\ ledger[1].args.identity = "0xBB"
    /\ ledger[2].args.identity = "0xAA"
    /\ owners["0xBB"] = "0xDD"
    /\ changed["0xBB"] = ledger[1].blockNumber
    /\ changed["0xAA"] = ledger[2].blockNumber
    /\ changed["0xBB"] < changed["0xAA"]

\* the block of the event of the identity that precedes position k, 0 for none
PrecedingChange(k) ==
    LET K == {j \in 1..(k - 1) : ledger[j].args.identity = ledger[k].args.identity}
    IN  IF K = {} THEN 0 ELSE ledger[Max(K)].blockNumber

\* C26: a call that goes through emits exactly one event, whose
\* previousChange is changed[identity] as it was before the call, and sets
\* changed[identity] to the current block number; so each event's
\* previousChange is the block number of the identity's preceding event, and
\* 0 for its first event.
C26_ChangeChain ==
    /\ [][\A identity \in Identities :
             (/\ \E actor \in Addresses : Called(identity, actor)
              /\ response'.op # "revert")
             => /\ Len(ledger') = Len(ledger) + 1
                /\ ledger'[Len(ledger')].args.identity = identity
                /\ ledger'[Len(ledger')].args.previousChange = changed[identity]
                /\ changed'[identity] = blockNumber]_vars
    /\ [](\A k \in 1..Len(ledger) :
             ledger[k].args.previousChange = PrecedingChange(k))

\* two events of one identity in two blocks: the second points at the first
C26_Witness ==
    /\ Len(ledger) = 2
    /\ ledger[1].args.identity = ledger[2].args.identity
    /\ ledger[1].blockNumber < ledger[2].blockNumber
    /\ ledger[1].args.previousChange = 0
    /\ ledger[2].args.previousChange = ledger[1].blockNumber
    /\ changed[ledger[2].args.identity] = ledger[2].blockNumber

\* ------------------------------------------------- signed calls on their own
SignedIdentities == {"0xAA", ZeroAddress}
Functions == {"changeOwner", "addDelegate", "revokeDelegate", "setAttribute",
              "revokeAttribute"}

\* the arguments the signed calls of this specification carry
ArgsOf(function) ==
    CASE function = "changeOwner" -> <<"0xBB">>
      [] function = "addDelegate" -> <<SigAuth, "0xDD", 1>>
      [] function = "revokeDelegate" -> <<SigAuth, "0xDD">>
      [] function = "setAttribute" -> <<ServiceName, UrlBytes, 1>>
      [] function = "revokeAttribute" -> <<ServiceName, UrlBytes>>

\* what a sender can submit with a call: the signature the holder of a key
\* made over the call's bytes, at the nonce the owner has now or had before
\* (stale); for the zero address, whose key nobody holds, bytes that are no
\* signature
signatureOf(signer, stale, identity, function) ==
    IF signer = ZeroAddress THEN Malformed
    ELSE Signature(signer,
                   [signedHash(identity, function, ArgsOf(function))
                       EXCEPT !.nonce = @ - stale])

NextSigned ==
    \/ MineBlock(1)
    \/ \E actor \in Addresses, newOwner \in {"0xAA", "0xBB"} :
          changeOwner("0xAA", actor, newOwner)
    \/ \E identity \in SignedIdentities, signer \in Accounts, stale \in 0..1 :
          changeOwnerSigned(identity,
              signatureOf(signer, stale, identity, "changeOwner"), "0xBB")
    \/ \E identity \in SignedIdentities, signer \in Accounts, stale \in 0..1 :
          addDelegateSigned(identity,
              signatureOf(signer, stale, identity, "addDelegate"),
              SigAuth, "0xDD", 1)
    \/ \E identity \in SignedIdentities, signer \in Accounts, stale \in 0..1 :
          revokeDelegateSigned(identity,
              signatureOf(signer, stale, identity, "revokeDelegate"),
              SigAuth, "0xDD")
    \/ \E identity \in SignedIdentities, signer \in Accounts, stale \in 0..1 :
          setAttributeSigned(identity,
              signatureOf(signer, stale, identity, "setAttribute"),
              ServiceName, UrlBytes, 1)
    \/ \E identity \in SignedIdentities, signer \in Accounts, stale \in 0..1 :
          revokeAttributeSigned(identity,
              signatureOf(signer, stale, identity, "revokeAttribute"),
              ServiceName, UrlBytes)
    \/ \E identity \in SignedIdentities, signer \in Accounts, stale \in 0..1,
          function \in Functions :
          bad_signature(identity, signatureOf(signer, stale, identity, function),
                        function, ArgsOf(function))

SpecSigned == Init /\ [][NextSigned]_vars

\* -------------------------------------------------- claims: signed calls
\* the step is the signed call of function on identity going through
SignedCall(identity, signature, function) ==
    CASE function = "changeOwner" ->
            changeOwnerSigned(identity, signature, "0xBB")
      [] function = "addDelegate" ->
            addDelegateSigned(identity, signature, SigAuth, "0xDD", 1)
      [] function = "revokeDelegate" ->
            revokeDelegateSigned(identity, signature, SigAuth, "0xDD")
      [] function = "setAttribute" ->
            setAttributeSigned(identity, signature, ServiceName, UrlBytes, 1)
      [] function = "revokeAttribute" ->
            revokeAttributeSigned(identity, signature, ServiceName, UrlBytes)

\* the signature was made by the identity's owner over the call at the
\* owner's nonce
ByOwnerAtNonce(identity, signature, function) ==
    /\ "malformed" \notin DOMAIN signature
    /\ signature.signer = identityOwner(identity)
    /\ signature.message = signedHash(identity, function, ArgsOf(function))

\* the registry would let the signed call through
Accepted(identity, signature, function) ==
    ecrecover(signedHash(identity, function, ArgsOf(function)), signature)
        = identityOwner(identity)

Submitted(identity, function) ==
    {signatureOf(signer, stale, identity, function) :
        signer \in Accounts, stale \in 0..1}

Checksummed(address) ==
    CHOOSE a \in Addresses \cup {Unheld} : toLowerCase(a) = toLowerCase(address)

\* the signer holds authority over the identity now, by the registry
AuthorityNow(identity, signer) ==
    \/ signer = identityOwner(identity)
    \/ validDelegate(identity, SigAuth, signer)
    \/ validDelegate(identity, VeriKey, signer)

\* the signer holds authority over the identity now, by the projections
ProjectedAuthorityNow(address, signer) ==
    \/ signer = ProjectedOwner(address)
    \/ \E d \in ProjectedDelegates(address) :
          /\ d.delegateAddress = signer
          /\ d.delegateType \in {<<"sigAuth">>, <<"veriKey">>}
          /\ d.validTo > now

\* C30: when the historical lookup fails during verify, the authority check
\* of the fallback is true exactly when the recovered signer holds current
\* authority over the issuer identity: it is the issuer's current owner or a
\* currently valid delegate of the issuer.
C30_FallbackIsCurrentAuthority ==
    FellBack =>
        LET flag == response.result.checks.signerValidAtIssuance
            issuer == IssuerAddressOf([issuer |-> response.result.details.issuerDid])
            signer == response.result.details.recoveredAddress
        IN  \/ flag <=> AuthorityNow(Checksummed(issuer), Checksummed(signer))
            \/ flag <=> ProjectedAuthorityNow(issuer, toLowerCase(signer))

\* ------------------------------------------ claims: log and projections
\* the projection holds what an entry of the event log is about: the
\* controller of the identity, or the row of the delegate or attribute
Reflected(event) ==
    LET address == toLowerCase(event.args.identity)
    IN  CASE event.eventName = "DIDOwnerChanged" ->
                /\ address \in DOMAIN identityRepository
                /\ identityRepository[address].controller # Null
          [] event.eventName = "DIDDelegateChanged" ->
                findDelegate(delegateRepository, address, event.args.delegateType,
                             toLowerCase(event.args.delegate)) # {}
          [] event.eventName = "DIDAttributeChanged" ->
                findAttribute(attributeRepository, address, event.args.name) # {}

\* the event log has an entry for what a projection holds
Recorded(address, eventName) ==
    \E i \in 1..Len(eventRepository) :
        /\ eventRepository[i].eventName = eventName
        /\ toLowerCase(eventRepository[i].args.identity) = address

\* C27: when no handler is running, an event is in the event log if and only
\* if the Identity / Delegate / Attribute projection reflects it, whether the
\* handler succeeded or failed part-way: no event is logged while its
\* projection update is missing.
C27_LogAndProjectionInLockstep ==
    /\ \A i \in 1..Len(eventRepository) : Reflected(eventRepository[i])
    /\ \A address \in DOMAIN identityRepository :
          identityRepository[address].controller # Null
          => Recorded(address, "DIDOwnerChanged")
    /\ \A i \in 1..Len(delegateRepository) :
          Recorded(delegateRepository[i].identity, "DIDDelegateChanged")
    /\ \A i \in 1..Len(attributeRepository) :
          Recorded(attributeRepository[i].identity, "DIDAttributeChanged")

\* ------------------------------------------- claims: the newest event wins
\* C28: for every key the projection reflects the event with the greatest
\* ledger position among the events applied so far for that key, also after
\* a syncFromBlock over blocks already ingested has run interleaved with live
\* delivery: an older event applied again does not overwrite the effect of a
\* newer one.  The event log holds one entry per application; the claim is
\* checked whenever no syncFromBlock is under way.
C28_NewestEventWins ==
    sync.queue = <<>> =>
        \A address \in LowerAddresses :
            /\ FoldOwner(address, head) # Null
               => identityRepository[address].controller = FoldOwner(address, head)
            /\ ProjectedDelegates(address) = FoldDelegates(address, head)
            /\ {[name |-> a.name, validTo |-> a.validTo] :
                   a \in ProjectedAttributes(address)}
               = {[name |-> a.name, validTo |-> a.validTo] :
                   a \in FoldAttributes(address, head)}

\* ------------------------------------------- grants and revocations replayed
NextRevocation ==
    \/ \E dt \in 1..2 : MineBlock(dt)
    \/ \E actor \in Addresses : changeOwner("0xAA", actor, "0xDD")
    \/ \E actor \in Addresses, delegateType \in {SigAuth, VeriKey} :
          addDelegate("0xAA", actor, delegateType, "0xDD", MaxValidity)
    \/ \E actor \in Addresses : revokeDelegate("0xAA", actor, SigAuth, "0xDD")
    \/ OnOwnerChanged
    \/ OnDelegateChanged

SpecRevocation == Init /\ [][NextRevocation]_vars

\* ------------------------------------- claims: replay of delegate events
\* the signer held authority over the identity in the state folded from the
\* events of the blocks up to maxBlock: the owner, or a delegate whose last
\* event among them has a validTo greater than the timestamp of maxBlock
HeldAuthorityAtBlock(address, signer, maxBlock) ==
    \/ OwnerOrSelf(FoldOwner(address, maxBlock), address) = signer
    \/ \E d \in FoldDelegates(address, maxBlock) :
          /\ d.delegateAddress = signer
          /\ d.validTo > blockTs[maxBlock + 1]

InitChain ==
    /\ \E n \in 0..MaxChain, gap \in 1..2 :
          /\ blockTs = [i \in 1..(n + 1) |-> GenesisTime + gap * (i - 1)]
          /\ now = GenesisTime + gap * n
    /\ owners = [a \in Accounts |-> ZeroAddress]
    /\ delegates = <<>>
    /\ changed = [a \in Accounts |-> 0]
    /\ nonce = [a \in Accounts |-> 0]
    /\ ledger = <<>>
    /\ delivered = 0
    /\ eventRepository = <<>>
    /\ identityRepository = <<>>
    /\ delegateRepository = <<>>
    /\ attributeRepository = <<>>
    /\ sync = NoSync
    /\ inflight = {}
    /\ logged = 0
    /\ credentialRepository = <<>>
    /\ isListening = FALSE
    /\ listeners = 0
    /\ starting = 0
    /\ serverState = [challenges |-> <<>>, sessions |-> <<>>, uuids |-> 0]
    /\ response = NoResponse

\* the seconds around the chain's timestamps, and an invalid Date
SearchDates == {s * MsPerSecond : s \in 0..(now + 1)} \cup {NaN}

NextSearch ==
    \E timestamp \in SearchDates, missing \in SUBSET (0..head) :
        GetBlockByTimestampUnless(timestamp, missing)

SpecSearch == InitChain /\ [][NextSearch]_vars

\* ------------------------------------------------------- claims: the search
\* the number of binary digits of n, which is ceil(log2(n + 1))
RECURSIVE bitLength(_)
bitLength(n) == IF n = 0 THEN 0 ELSE 1 + bitLength(n \div 2)

\* C31: the binary search of getBlockByTimestamp ends for every head block
\* number and every pattern of block lookups that return no block, with a
\* result in 0..head, after at most ceil(log2(head + 1)) block lookups
\* besides the fetch of the head.
C31_SearchIsLogarithmic ==
    response.op = "getBlockByTimestamp" =>
        /\ response.result \in 0..head
        /\ response.lookups <= bitLength(head)

\* the bound is met: three lookups on a chain with head 4, one of them for a
\* block the provider does not have
C31_Witness ==
    /\ response.op = "getBlockByTimestamp"
    /\ head = 4
    /\ response.missing # {}
    /\ response.lookups = 3
    /\ bitLength(head) = 3

\* ---------------------------------------------------------- DidController
\* a query parameter that is a numeral followed by other characters ("2abc"),
\* and one that does not start with a numeral ("latest")
Trailing(n) == [digits |-> n, rest |-> "abc"]
NotANumber == [text |-> "latest"]

\* parseInt(block, 10): the number of the leading numeral, NaN without one
parseIntRadix10(s) == IF "digits" \in DOMAIN s THEN s.digits ELSE NaN

\* resolveAtBlock at the block getBlockByTimestamp finds
resolveAtTime(did, timestamp) ==
    resolveAtBlock(did, getBlockByTimestamp(timestamp))

\* const blockNumber = parseInt(block, 10)
blockNumberOf(block) == parseIntRadix10(block)

\* GET api/did/:did: the calls to DidService it makes and what it returns
getDidDocument(did, timestamp, block) ==
    IF truthy(timestamp)
    THEN IF dateOf(timestamp) = NaN
         THEN [threw |-> TRUE, calls |-> <<>>,
               error |-> "Invalid timestamp format. Use ISO 8601 format."]
         ELSE [threw |-> FALSE, calls |-> <<"resolveAtTime">>,
               document |-> resolveAtTime(did, dateOf(timestamp))]
    ELSE IF truthy(block)
    THEN IF blockNumberOf(block) = NaN
         THEN [threw |-> TRUE, calls |-> <<>>, error |-> "Invalid block number."]
         ELSE [threw |-> FALSE, calls |-> <<"resolveAtBlock">>,
               document |-> resolveAtBlock(did, blockNumberOf(block))]
    ELSE [threw |-> FALSE, calls |-> <<"resolve">>, document |-> resolve(did)]

\* GET api/did/:did/verify-signer; signer is the query parameter, a string
\* [text |-> address] when it was sent
verifySigner(did, signer, timestamp) ==
    IF ~truthy(signer)
    THEN [threw |-> TRUE, calls |-> <<>>, error |-> "Signer address is required."]
    ELSE IF ~truthy(timestamp)
    THEN [threw |-> TRUE, calls |-> <<>>, error |-> "Timestamp is required."]
    ELSE IF dateOf(timestamp) = NaN
    THEN [threw |-> TRUE, calls |-> <<>>,
          error |-> "Invalid timestamp format. Use ISO 8601 format."]
    ELSE [threw |-> FALSE,
          calls |-> <<"wasValidSignerAtTime", "getOwnerAtTime">>,
          wasValidSigner |->
              wasValidSignerAtTime(did, signer.text, dateOf(timestamp)),
          ownerAtTime |-> getOwnerAtTime(did, dateOf(timestamp))]

GetDidDocument(did, timestamp, block) ==
    /\ response' = [op |-> "getDidDocument", timestamp |-> timestamp,
                    block |-> block,
                    result |-> getDidDocument(did, timestamp, block)]
    /\ UNCHANGED <<chainVars, registryVars, indexVars, credentialRepository, hostVars>>

VerifySigner(did, signer, timestamp) ==
    /\ response' = [op |-> "verifySigner", timestamp |-> timestamp,
                    block |-> Undefined,
                    result |-> verifySigner(did, signer, timestamp)]
    /\ UNCHANGED <<chainVars, registryVars, indexVars, credentialRepository, hostVars>>

\* the values a client sends for ?timestamp= and ?block=
TimestampParams == {Undefined, EmptyString, NotADate, ClockString}
BlockParams == {Undefined, EmptyString, NotANumber, toString(head), Trailing(head)}

NextRequests ==
    \/ MineBlock(1)
    \/ changeOwner("0xAA", "0xAA", "0xBB")
    \/ OnOwnerChanged
    \/ \E timestamp \in TimestampParams, block \in BlockParams :
          GetDidDocument(<<"did", "ethr", "0xAA">>, timestamp, block)
    \/ \E signer \in {Undefined, [text |-> "0xAA"]}, timestamp \in TimestampParams :
          VerifySigner(<<"did", "ethr", "0xAA">>, signer, timestamp)

SpecRequests == Init /\ [][NextRequests]_vars

\* ------------------------------------------- claims: malformed parameters
\* a parameter that was sent, is not empty and is not what it has to be: a
\* timestamp that is no date, a block that is not a numeral throughout
MalformedTimestamp(timestamp) == truthy(timestamp) /\ dateOf(timestamp) = NaN
MalformedBlock(block) == truthy(block) /\ DOMAIN block # {"digits"}

\* C32: a request whose timestamp or block parameter is malformed is rejected
\* with an error before any ledger lookup or event-log query: it calls none
\* of getBlockByTimestamp, resolveAtBlock, getOwnerAtTime,
\* wasValidSignerAtTime, directly or through resolveAtTime.
C32_MalformedIsRejectedFirst ==
    (/\ response.op \in {"getDidDocument", "verifySigner"}
     /\ \/ MalformedTimestamp(response.timestamp)
        \/ MalformedBlock(response.block))
    => /\ response.result.threw
       /\ response.result.calls = <<>>

\* ------------------------------------------------- revocation and status
\* a getStatus that looks at the expiration date before the stored status
getStatus_ExpiryFirst(credentialId) ==
    LET found == findCredential(uuidOf(credentialId))
        credential == credentialRepository[Min(found)]
    IN  IF found = {} THEN [threw |-> TRUE, error |-> "NotFoundException"]
        ELSE [threw |-> FALSE,
              status |-> IF /\ truthy(credential.expirationDate)
                            /\ dateOf(credential.expirationDate) # NaN
                            /\ dateOf(credential.expirationDate) < now * MsPerSecond
                         THEN "expired"
                         ELSE IF credential.status = "revoked" THEN "revoked"
                         ELSE "active"]

\* getStatus: 'revoked' before 'expired'; a comparison with an invalid Date
\* is false
getStatus(credentialId) ==
    LET found == findCredential(uuidOf(credentialId))
        credential == credentialRepository[Min(found)]
    IN  IF found = {} THEN [threw |-> TRUE, error |-> "NotFoundException"]
        ELSE [threw |-> FALSE,
              status |-> IF credential.status = "revoked" THEN "revoked"
                         ELSE IF /\ truthy(credential.expirationDate)
                                 /\ dateOf(credential.expirationDate) # NaN
                                 /\ dateOf(credential.expirationDate) < now * MsPerSecond
                         THEN "expired"
                         ELSE "active"]

GetStatus(credentialId) ==
    /\ response' = [op |-> "getStatus", credentialId |-> credentialId,
                    result |-> getStatus(credentialId)]
    /\ UNCHANGED <<chainVars, registryVars, indexVars, credentialRepository, hostVars>>

\* the revoke requests: the id with and without its prefix and an id that is
\* not stored; the issuer's address in both cases and another address; a
\* signature of either over the message of either form of the id, and one
\* that is no signature
RevokeIds == CredentialIds \cup {Bare(1)}
RevokeAddresses == {"0xAA", "0xaa", "0xDD"}
RevokeSignatures ==
    {Signature(signer, revokeMessage(credentialId)) :
        signer \in {"0xAA", "0xDD"}, credentialId \in {Urn(1), Bare(1)}}
    \cup {Malformed}

NextRevoke ==
    \/ Tick
    \/ \E issuerAddress \in {"0xAA", "0xDD"}, expirationDate \in {Undefined, ExpiresAt} :
          Issue(IssueRequest(issuerAddress, issuerAddress, IssuedAt, expirationDate))
    \/ \E credentialId \in RevokeIds, issuerAddress \in RevokeAddresses,
          signature \in RevokeSignatures :
          Revoke(credentialId, issuerAddress, signature)
    \/ \E credentialId \in RevokeIds : Verify(credentialId, TRUE)
    \/ \E credentialId \in RevokeIds : GetStatus(credentialId)

SpecRevoke == Init /\ [][NextRevoke]_vars

\* --------------------------------------------------- claims: revocation
\* the three conditions of a revocation, read off the request and the rows
MayRevoke(credentialId, issuerAddress, signature) ==
    /\ RowsOf(credentialId) # {}
    /\ lowerDid(RowOf(credentialId).issuer) = didOf(toLowerCase(issuerAddress))
    /\ "malformed" \notin DOMAIN signature
    /\ signature.message = <<"Revoke credential", credentialId>>
    /\ toLowerCase(signature.signer) = toLowerCase(issuerAddress)

\* C33: revoke changes a credential's status to REVOKED only when the
\* credential exists, the DID of the given issuerAddress is the credential's
\* issuer and the signature over 'Revoke credential: <id>' recovers to
\* issuerAddress; in every other case it fails with an error and the stored
\* status of every credential is unchanged.
C33_RevokeOnlyByIssuer ==
    [][\A credentialId \in RevokeIds, issuerAddress \in RevokeAddresses,
          signature \in RevokeSignatures :
          Revoke(credentialId, issuerAddress, signature) =>
              /\ credentialRepository' # credentialRepository =>
                    /\ MayRevoke(credentialId, issuerAddress, signature)
                    /\ credentialRepository' =
                           [credentialRepository EXCEPT
                               ![Min(RowsOf(credentialId))].status = "revoked"]
              /\ ~MayRevoke(credentialId, issuerAddress, signature) =>
                    /\ response'.threw
                    /\ \A row \in 1..Len(credentialRepository) :
                          credentialRepository'[row].status =
                              credentialRepository[row].status]_vars

\* a revoke request for a stored, active credential was refused
C33_Witness ==
    /\ response.op = "revoke"
    /\ response.threw
    /\ response.error = "BadRequestException"
    /\ RowsOf(response.credentialId) # {}
    /\ RowOf(response.credentialId).status = "active"

\* C39: once a credential's status is REVOKED no operation sets it back, so
\* every later verify of it reports notRevoked = false and every later
\* getStatus reports 'revoked', also after its expiration date has passed.
C39_RevocationIsPermanent ==
    /\ [][\A row \in 1..Len(credentialRepository) :
             credentialRepository[row].status = "revoked" =>
                 /\ row <= Len(credentialRepository')
                 /\ credentialRepository'[row].id = credentialRepository[row].id
                 /\ credentialRepository'[row].status = "revoked"]_vars
    /\ [](/\ response.op \in {"verify", "getStatus"}
          /\ RowsOf(response.credentialId) # {}
          /\ RowOf(response.credentialId).status = "revoked"
          => IF response.op = "verify"
             THEN ~response.result.checks.notRevoked
             ELSE /\ ~response.result.threw
                  /\ response.result.status = "revoked")

\* the status of a revoked credential was asked for after its expiration date
C39_Witness ==
    /\ response.op = "getStatus"
    /\ RowsOf(response.credentialId) # {}
    /\ RowOf(response.credentialId).status = "revoked"
    /\ truthy(RowOf(response.credentialId).expirationDate)
    /\ dateOf(RowOf(response.credentialId).expirationDate) < now * MsPerSecond
    /\ response.result.status = "revoked"

\* ------------------------------------------------------------- issuance
\* the request a client sends: its fields and a signature by signer over
\* createCredentialMessage of them
IssueRequestOf(issuerAddress, signer, type, claims, expirationDate) ==
    LET fields == [subjectDid |-> SubjectDid, type |-> type, claims |-> claims,
                   issuanceDate |-> IssuedAt, expirationDate |-> expirationDate]
        message == createCredentialMessage(
                       fields @@ [issuerDid |-> didOf(toLowerCase(issuerAddress))])
    IN  fields @@ [issuerAddress |-> issuerAddress,
                   signature |-> Signature(signer, message)]

\* a request changed after it was signed, and one whose signature is no
\* signature
Forged(dto) == [dto EXCEPT !.claims = ClaimsForged]
Unsigned(dto) == [dto EXCEPT !.signature = Malformed]

NextIssue ==
    \/ MineBlock(1)
    \/ Tick
    \/ \E issuerAddress \in {"0xAA", "0xaa"}, signer \in {"0xAA", "0xDD"},
          expirationDate \in {Undefined, ExpiresAt} :
          LET dto == IssueRequestOf(issuerAddress, signer, <<"DegreeCredential">>,
                                    ClaimsSigned, expirationDate)
          IN  \/ Issue(dto)
              \/ Issue(Forged(dto))
              \/ Issue(Unsigned(dto))
    \/ \E credentialId \in CredentialIds : Verify(credentialId, TRUE)
    \/ \E credentialId \in CredentialIds : GetStatus(credentialId)

SpecIssue == Init /\ [][NextIssue]_vars

\* the credentials of a client that signs what it sends, in every shape the
\* request body admits: with and without further types and claims, a claim
\* named id, and an expirationDate that is absent, a date, empty or null
TypeLists == {<<>>, <<"DegreeCredential">>}
ClaimSets == {<<>>, ClaimsSigned,
              <<[key |-> "id", value |-> "1"], [key |-> "degree", value |-> "BSc"]>>}
ExpirationDates == {Undefined, ExpiresAt, EmptyString, NullString}

NextPayload ==
    \/ MineBlock(1)
    \/ \E issuerAddress \in {"0xAA", "0xaa"}, type \in TypeLists,
          claims \in ClaimSets, expirationDate \in ExpirationDates :
          Issue(IssueRequestOf(issuerAddress, "0xAA", type, claims, expirationDate))
    \/ \E credentialId \in CredentialIds : Verify(credentialId, TRUE)

SpecPayload == Init /\ [][NextPayload]_vars

\* ----------------------------------------------------- claims: issuance
\* the signature of a request is one over the message of its own fields, by
\* the key of its issuerAddress
RecoversToIssuer(dto) ==
    /\ "malformed" \notin DOMAIN dto.signature
    /\ dto.signature.message =
           createCredentialMessage(
               [issuerDid |-> didOf(toLowerCase(dto.issuerAddress)),
                subjectDid |-> dto.subjectDid, type |-> dto.type,
                claims |-> dto.claims, issuanceDate |-> dto.issuanceDate,
                expirationDate |-> dto.expirationDate])
    /\ toLowerCase(dto.signature.signer) = toLowerCase(dto.issuerAddress)

\* C34: issue stores a credential only when the supplied signature over the
\* canonical payload recovers to issuerAddress; when the signature is
\* malformed or recovers to another address, issue fails with a BadRequest
\* error and no credential is stored.
C34_IssueOnlySigned ==
    [][response'.op = "issue" =>
          /\ credentialRepository' # credentialRepository =>
                RecoversToIssuer(response'.dto)
          /\ ~RecoversToIssuer(response'.dto) =>
                /\ response'.threw
                /\ response'.error = "BadRequestException"
                /\ credentialRepository' = credentialRepository]_vars

\* a request with a well-formed signature of another key was refused
C34_Witness ==
    /\ response.op = "issue"
    /\ response.threw
    /\ "malformed" \notin DOMAIN response.dto.signature
    /\ response.dto.signature.signer = "0xDD"
    /\ response.dto.claims = ClaimsSigned
    /\ credentialRepository = <<>>
    /\ isListening = FALSE
    /\ listeners = 0
    /\ starting = 0
    /\ serverState = [challenges |-> <<>>, sessions |-> <<>>, uuids |-> 0]

\* C35: every credential that issue accepted and stored, its stored fields
\* unmodified, verifies with checks.signature = true, for every accepted
\* combination of type list, claims and expirationDate.
C35_IssuedVerifiesSigned ==
    (/\ response.op = "verify"
     /\ RowsOf(response.credentialId) # {})
    => response.result.checks.signature

\* -------------------------------------------- ownership: backend and chain
\* DidService.getOwner: the controller column of the identity's row, the
\* address itself when there is no row or no controller
getOwner(did) ==
    LET address == extractAddress(did)
        controller == IF address \in DOMAIN identityRepository
                      THEN identityRepository[address].controller ELSE Null
    IN  [did |-> didOf(address),
         owner |-> IF controller # Null THEN controller ELSE address,
         isSelfOwned |-> controller = Null \/ controller = address]

GetOwner(did) ==
    /\ response' = [op |-> "getOwner", did |-> did, result |-> getOwner(did)]
    /\ UNCHANGED <<chainVars, registryVars, indexVars, credentialRepository, hostVars>>

NextRefinement ==
    \/ MineBlock(1)
    \/ \E identity \in {"0xAA", "0xBB"}, actor \in {"0xAA", "0xBB"},
          newOwner \in {"0xAA", "0xBB", ZeroAddress} :
          changeOwner(identity, actor, newOwner)
    \/ OnOwnerChanged
    \/ \E identity \in {"0xAA", "0xBB"} : GetOwner(didOf(identity))
    \/ \E identity \in {"0xAA", "0xBB"} : GetOwnerAtBlock(didOf(identity), head)

SpecRefinement == Init /\ [][NextRefinement]_vars

\* C36: after all events the registry emitted have been ingested in ledger
\* order, for every identity the owner reported by getOwner, and by
\* getOwnerAtBlock at the head, is the registry's identityOwner(identity),
\* for every sequence of successful changeOwner calls, including transfers
\* back to the identity itself and to the zero address. Addresses are
\* compared in lower case.
C36_OwnershipRefinesRegistry ==
    delivered = Len(ledger) =>
        \A identity \in {"0xAA", "0xBB"} :
            /\ toLowerCase(getOwner(didOf(identity)).owner)
                   = toLowerCase(identityOwner(identity))
            /\ toLowerCase(getOwnerAtBlock(didOf(identity), head))
                   = toLowerCase(identityOwner(identity))

\* ------------------------------------------------ the two historical paths
NextPaths ==
    \/ MineBlock(1)
    \/ \E identity \in {"0xAA", "0xBB"}, newOwner \in {"0xBB", ZeroAddress} :
          changeOwner(identity, identityOwner(identity), newOwner)
    \/ \E validity \in 1..MaxValidity :
          addDelegate("0xAA", identityOwner("0xAA"), SigAuth, "0xDD", validity)
    \/ revokeDelegate("0xAA", identityOwner("0xAA"), SigAuth, "0xDD")
    \/ OnOwnerChanged
    \/ OnDelegateChanged
    \/ \E maxBlock \in 0..head : GetOwnerAtBlock(didOf("0xAA"), maxBlock)

SpecPaths == Init /\ [][NextPaths]_vars

\* the delegates of a replayed state as a map from delegate key to validTo
validToPerKey(state) ==
    [i \in 1..Len(state.delegates) |->
        [key |-> state.delegates[i].delegateType
                     \o <<state.delegates[i].delegateAddress>>,
         value |-> state.delegates[i].validTo]]

\* C37: for every event log, identity X and block P, getOwnerAtBlock(X, P) is
\* the owner that reconstructStateFromEvents yields for (X, P), no owner read
\* as X itself, and the delegateState of wasValidSignerAtBlock has the same
\* validTo per delegate key as the delegates reconstructStateFromEvents
\* yields for (X, P).
C37_HistoricalPathsAgree ==
    \A did \in Dids, maxBlock \in Blocks :
        LET address == extractAddress(did)
            state == historicalState(did, maxBlock)
        IN  /\ getOwnerAtBlock(did, maxBlock) = OwnerOrSelf(state.owner, address)
            /\ delegateStateAt(address, maxBlock) = validToPerKey(state)

\* the owner of 0xAA was asked for at a block after a transfer of it and
\* before a later one
C37_Witness ==
    /\ response.op = "getOwnerAtBlock"
    /\ extractAddress(response.did) = "0xaa"
    /\ response.blockNumber < head
    /\ response.result # getOwnerAtBlock(response.did, head)
    /\ response.result # "0xaa"

\* ---------------------------------------------- BlockchainService: listening
\* startListening up to its await: nothing when isListening is set, else the
\* call waits for provider.getBlockNumber()
StartListening ==
    /\ starting < MaxStarts
    /\ starting' = IF isListening THEN starting ELSE starting + 1
    /\ response' = [op |-> "startListening", returned |-> isListening]
    /\ UNCHANGED <<chainVars, registryVars, indexVars, credentialRepository,
                   isListening, listeners, serverState>>

\* getBlockNumber answers: one listener more for each of the three events,
\* then isListening = true
Connected ==
    /\ starting > 0
    /\ starting' = starting - 1
    /\ listeners' = listeners + 1
    /\ isListening' = TRUE
    /\ response' = [op |-> "getBlockNumber", threw |-> FALSE]
    /\ UNCHANGED <<chainVars, registryVars, indexVars, credentialRepository,
                   serverState>>

\* getBlockNumber throws: the catch logs and the call ends
ConnectionFailed ==
    /\ starting > 0
    /\ starting' = starting - 1
    /\ response' = [op |-> "getBlockNumber", threw |-> TRUE]
    /\ UNCHANGED <<chainVars, registryVars, indexVars, credentialRepository,
                   isListening, listeners, serverState>>

StopListening ==
    /\ IF isListening
       THEN /\ listeners' = 0
            /\ isListening' = FALSE
       ELSE UNCHANGED <<isListening, listeners>>
    /\ response' = [op |-> "stopListening", returned |-> ~isListening]
    /\ UNCHANGED <<chainVars, registryVars, indexVars, credentialRepository,
                   starting, serverState>>

\* the provider hands the next log to every listener of its event; each
\* callback starts a handler of its own
DispatchToListeners ==
    /\ delivered < Len(ledger)
    /\ inflight' = inflight \cup
           {[log |-> delivered + 1, pc |-> "event", found |-> 0, listener |-> k] :
               k \in 1..listeners}
    /\ delivered' = delivered + 1
    /\ response' = NoResponse
    /\ UNCHANGED <<chainVars, registryVars, eventRepository, identityRepository,
                   delegateRepository, attributeRepository, sync, logged,
                   credentialRepository, hostVars>>

NextListening ==
    \/ MineBlock(1)
    \/ changeOwner("0xAA", identityOwner("0xAA"), "0xBB")
    \/ StartListening
    \/ Connected
    \/ ConnectionFailed
    \/ StopListening
    \/ DispatchToListeners
    \/ \E h \in inflight : SaveEvent(h)
    \/ \E h \in inflight : FindRows(h)
    \/ \E h \in inflight : SaveRow(h)

SpecListening == Init /\ [][NextListening]_vars

\* C38: the listeners are registered at most once at any time, for every
\* interleaving of startListening and stopListening calls, a second
\* startListening during the first one's connection test included: each
\* ledger event is handled by at most one handler invocation; and a failed
\* connection test leaves isListening false and no listener registered.
C38_ListenersRegisteredOnce ==
    /\ [](listeners <= 1)
    /\ [][delivered' # delivered => Cardinality(inflight' \ inflight) <= 1]_vars
    /\ [][(response'.op = "getBlockNumber" /\ response'.threw /\ ~isListening)
             => ~isListening' /\ listeners' = 0]_vars

\* ------------------------------------------------ login example: the server
\* parts[parts.length - 1].toLowerCase() of did.split(':')
didToAddress(did) == toLowerCase(did[Len(did)])

\* the challenge generateChallenge makes with the id-th UUID at second t; its
\* random value is as fresh as its id
newChallenge(id, domain, t) ==
    [id |-> id,
     challenge |-> [random |-> id],
     domain |-> domain,
     issuedAt |-> Iso(t * MsPerSecond),
     expiresAt |-> Iso((t + ChallengeLifetime) * MsPerSecond)]

createSignMessage(challenge) ==
    <<"Sign this message to login to", challenge.domain, challenge.challenge,
      challenge.issuedAt>>

\* serverState.challenges.get(id): the positions of the entry
challengeIn(state, id) ==
    {i \in 1..Len(state.challenges) : state.challenges[i].id = id}
challengeAt(id) == challengeIn(serverState, id)

\* serverState.challenges.delete(id)
withoutChallenge(id) ==
    [serverState EXCEPT !.challenges = SelectSeq(@, LAMBDA c : c.id # id)]

withSession(state, request, recoveredAddress) ==
    [state EXCEPT !.sessions =
        Append(@, [token |-> Len(@) + 1, did |-> request.did,
                   address |-> recoveredAddress])]

\* the outcome of verifyLogin past the lookup of the challenge
loginResult(challenge, request) ==
    LET recovered == verifyMessage(createSignMessage(challenge), request.signature)
    IN  IF dateOf(challenge.expiresAt) < now * MsPerSecond
        THEN [success |-> FALSE, error |-> "Challenge expired"]
        ELSE IF recovered.threw
        THEN [success |-> FALSE, error |-> "Invalid signature"]
        ELSE IF toLowerCase(recovered.address) # toLowerCase(didToAddress(request.did))
        THEN [success |-> FALSE, error |-> "Signature does not match DID"]
        ELSE [success |-> TRUE, address |-> recovered.address]

\* a verifyLogin that uses the challenge up only when it logs the client in
verifyLogin_KeepOnFailure(request) ==
    LET found == challengeAt(request.challengeId)
        result == loginResult(serverState.challenges[Min(found)], request)
    IN  IF found = {}
        THEN [state |-> serverState,
              result |-> [success |-> FALSE, error |-> "Invalid or expired challenge"]]
        ELSE IF result.success
        THEN [state |-> withSession(withoutChallenge(request.challengeId),
                                    request, result.address),
              result |-> result]
        ELSE [state |-> serverState, result |-> result]

\* verifyLogin: the server state it leaves and the response
verifyLogin(request) ==
    LET found == challengeAt(request.challengeId)
        result == loginResult(serverState.challenges[Min(found)], request)
        removed == withoutChallenge(request.challengeId)
    IN  IF found = {}
        THEN [state |-> serverState,
              result |-> [success |-> FALSE, error |-> "Invalid or expired challenge"]]
        ELSE IF result.success
        THEN [state |-> withSession(removed, request, result.address),
              result |-> result]
        ELSE [state |-> removed, result |-> result]

GenerateChallenge(domain) ==
    /\ serverState.uuids < MaxChallenges
    /\ serverState' =
           [serverState EXCEPT
               !.uuids = @ + 1,
               !.challenges = Append(@, newChallenge(serverState.uuids + 1, domain, now))]
    /\ response' = [op |-> "generateChallenge", id |-> serverState.uuids + 1]
    /\ UNCHANGED <<chainVars, registryVars, indexVars, credentialRepository,
                   isListening, listeners, starting>>

VerifyLogin(request) ==
    /\ serverState' = verifyLogin(request).state
    /\ response' = [op |-> "verifyLogin", request |-> request,
                    result |-> verifyLogin(request).result]
    /\ UNCHANGED <<chainVars, registryVars, indexVars, credentialRepository,
                   isListening, listeners, starting>>

\* the signatures a client can send: its own or another key's over the
\* message of a challenge the server has handed out, and one that is none
LoginSignatures ==
    {Signature(signer, createSignMessage(newChallenge(id, "example.com", t))) :
        signer \in {"0xAA", "0xDD"}, id \in 1..serverState.uuids,
        t \in GenesisTime..now}
    \cup {Malformed}

NextLogin ==
    \/ Tick
    \/ GenerateChallenge("example.com")
    \/ \E challengeId \in 1..MaxChallenges, signature \in LoginSignatures :
          VerifyLogin([challengeId |-> challengeId, did |-> didOf("0xAA"),
                       signature |-> signature])

SpecLogin == Init /\ [][NextLogin]_vars

\* ------------------------------------------------------- claims: login
\* the request proves the DID: its signature is one over the message of the
\* challenge by the key of the DID's address
ProvesDid(request, challenge) ==
    /\ "malformed" \notin DOMAIN request.signature
    /\ request.signature.message = createSignMessage(challenge)
    /\ toLowerCase(request.signature.signer) = didToAddress(request.did)

\* C40: verifyLogin removes the challenge before any other check, so each
\* challenge id leads to at most one session: whatever the outcome the
\* challenge is gone afterwards and its id is never handed out again, a
\* verifyLogin with an id that is not held fails with 'Invalid or expired
\* challenge', and a session is created only when the signature recovers to
\* the address of the claimed DID and the challenge has not expired.
C40_ChallengeIsSingleUse ==
    /\ [][response'.op = "verifyLogin" =>
             LET request == response'.request
                 found == challengeAt(request.challengeId)
                 challenge == serverState.challenges[Min(found)]
             IN  /\ challengeIn(serverState', request.challengeId) = {}
                 /\ found = {} =>
                       /\ ~response'.result.success
                       /\ response'.result.error = "Invalid or expired challenge"
                       /\ serverState'.sessions = serverState.sessions
                 /\ Len(serverState'.sessions) <= Len(serverState.sessions) + 1
                 /\ serverState'.sessions # serverState.sessions =>
                       /\ found # {}
                       /\ ProvesDid(request, challenge)
                       /\ dateOf(challenge.expiresAt) >= now * MsPerSecond]_vars
    /\ [][\A id \in 1..MaxChallenges :
             (challengeAt(id) = {} /\ challengeAt(id)' # {}) => id > serverState.uuids]_vars

\* a challenge that was handed out and used up in a login that failed is
\* presented again
C40_Witness ==
    /\ response.op = "verifyLogin"
    /\ ~response.result.success
    /\ response.request.challengeId <= serverState.uuids
    /\ ProvesDid(response.request,
                 newChallenge(response.request.challengeId, "example.com", now))
    /\ response.result.error = "Invalid or expired challenge"
    /\ serverState.sessions = <<>>

====
